---- MODULE Spec2Model ----
(***************************************************************************)
(* Transaction consistency and resilience subsystem of synapse-core:       *)
(* the settlement engine (services/settlement.rs, db/queries.rs), the      *)
(* dead-letter requeue path (services/transaction_processor.rs), the       *)
(* status updates (process / force-complete) and the Redis-backed          *)
(* idempotency middleware (middleware/idempotency.rs).                     *)
(*                                                                         *)
(* The relational store is PostgreSQL at READ COMMITTED: a statement run   *)
(* on the pool autocommits and is one step; the statements of            *)
(* settle_asset run inside one store transaction, whose writes become      *)
(* visible at COMMIT and whose row locks (SELECT ... FOR UPDATE) are held  *)
(* until COMMIT or ROLLBACK.                                               *)
(***************************************************************************)
EXTENDS Integers, Sequences, FiniteSets, TLC

\* ---------------------------------------------------------------- bounds
MaxTx == 2
MaxTime == 1
MaxAmount == 2
MaxDlq == 2
MaxMoves == 1
MaxRows == 3
MaxDue == 2

\* ------------------------------------------------------------- constants
Assets == {"USD", "EUR"}
Amounts == 1..MaxAmount
TxIds == 1..MaxTx
DlqIds == 1..MaxDlq
Settlers == {"s1", "s2"}
Requeuers == {"r1"}
NoProc == "none"
NULL == 0

VARIABLES
    now,          \* the clock read by Utc::now() and NOW()
    transactions, \* table transactions: sequence of rows, id = index
    settlements,  \* table settlements: sequence of rows, id = index
    dlq,          \* table transaction_dlq: set of rows
    nextDlq,      \* next fresh transaction_dlq id
    lock,         \* row locks on transactions held by open store transactions
    settler,      \* one settle_asset invocation per settler
    requeuer,     \* one requeue_dlq invocation per requeuer
    cache,        \* the Redis keys "idempotency:<key>": value and TTL
    req,          \* one idempotency_middleware invocation per request slot
    holders,      \* per key: callers that observed New on the current marker
    stored,       \* per key: the completed result stored and not yet expired
    released,     \* per key: release_lock ran and nothing was written since
    retry,        \* the admin retry_transaction invocation
    up,           \* per database server: it answers queries now
    replica,      \* db::pool_manager::PoolManager.replica (Option)
    routed,       \* the last get_pool call: its intent and the pool returned
    probe,        \* the last HealthCheckResult of health_check
    search,       \* the search_transactions handler invocation
    replica_urls, \* failover PoolManager::new: the replica urls configured
    replicas,     \* failover PoolManager.replicas: Vec<ReplicaPool>
    exec,         \* the execute_query invocation
    check,        \* the check_health invocation
    failed,       \* replicas whose query failed in a read, not probed well since
    sweep,        \* the run_settlements invocation
    rerun,        \* a caller that runs settle_asset twice in a row on one asset
    pager,        \* a client following next_cursor through list_transactions
    cb,           \* the callback handler invocation
    job           \* the background settlement worker of main.rs

db == <<now, transactions, settlements, dlq, nextDlq, lock, settler, requeuer>>

idem == <<cache, req, holders, stored, released>>

router == <<up, replica, routed, probe, search, replica_urls, replicas, exec, check, failed>>

aux == <<rerun, pager, cb, job>>

ops == <<retry, router, sweep, aux>>

vars == <<db, idem, ops>>

\* ------------------------------------------------------------- helpers
RECURSIVE SumAmounts(_)
SumAmounts(S) ==
    IF S = {} THEN 0
    ELSE LET t == CHOOSE x \in S : TRUE
         IN transactions[t].amount + SumAmounts(S \ {t})

Exists(t) == t \in 1..Len(transactions)

\* WHERE clause of get_unsettled_transactions
\* mutant: the scan does not test settlement_id IS NULL
Eligible_IgnoresLink(t, asset_code, end_time) ==
    /\ Exists(t)
    /\ transactions[t].status = "completed"
    /\ transactions[t].asset_code = asset_code
    /\ transactions[t].updated_at <= end_time

\* mutant: the scan does not test asset_code = $1
Eligible_AnyAsset(t, asset_code, end_time) ==
    /\ Exists(t)
    /\ transactions[t].status = "completed"
    /\ transactions[t].settlement_id = NULL
    /\ transactions[t].updated_at <= end_time

Eligible(t, asset_code, end_time) ==
    /\ Exists(t)
    /\ transactions[t].status = "completed"
    /\ transactions[t].settlement_id = NULL
    /\ transactions[t].asset_code = asset_code
    /\ transactions[t].updated_at <= end_time

IdleSettler ==
    [pc |-> "idle", asset |-> "USD", end_time |-> 0, todo |-> {}, got |-> {},
     row |-> [asset_code |-> "USD", total_amount |-> 0, tx_count |-> 0,
              period_start |-> 0, period_end |-> 0, counted |-> {}],
     result |-> "",
     saved |-> 0,         \* Ok(Some(saved_settlement)): the settlement's id
     skipped |-> FALSE]   \* a selected row no longer matched once its lock was free

\* settle_asset has returned: Ok(None), Ok(Some(settlement)) or Err
Returned(result, skipped) ==
    [IdleSettler EXCEPT !.pc = "done", !.result = result, !.skipped = skipped]

IdleRequeuer ==
    [pc |-> "idle", dlq_id |-> 0, tx_id |-> 0, result |-> ""]

NoResponse == [status |-> 0, code |-> "", error |-> ""]

\* The id in the path of POST /retry/:id is a UUID: the id of a dead-letter
\* entry that was created at some time, the id of a transaction, or a UUID
\* that is neither (the three never coincide, and a UUID that will be
\* generated later cannot be asked for now).
RetryIds ==
    [kind : {"dlq"}, n : DlqIds] \cup [kind : {"tx"}, n : TxIds]
        \cup {[kind |-> "none", n |-> 0]}
Issued(id) ==
    /\ id.kind = "dlq" => id.n < nextDlq
    /\ id.kind = "tx" => id.n <= Len(transactions)
AsDlqId(id) == IF id.kind = "dlq" THEN id.n ELSE 0
AsTxId(id) == IF id.kind = "tx" THEN id.n ELSE 0

\* run_settlements: the assets still to visit, the asset being settled, the
\* results vector and the value returned; discovered, called, logged and
\* first record what the call found, the settle_asset calls it made, the
\* tracing::error! lines it wrote and the settlements that existed before.
NoSweepResponse == [kind |-> "", error |-> NoResponse, results |-> <<>>]

IdleSweep ==
    [pc |-> "idle", assets |-> <<>>, asset |-> "", results |-> <<>>,
     discovered |-> {}, called |-> <<>>, logged |-> {}, first |-> 0,
     response |-> NoSweepResponse]

\* A caller of settle_asset that runs it again as soon as it returned: the
\* asset, both results, and the completions that were there when the first
\* run was called.
IdleRerun ==
    [pc |-> "idle", asset |-> "", first |-> "", second |-> "", completed |-> {}]

\* A client of GET /transactions: the rows (created_at, id) of the table, the
\* query parameters it keeps, the cursor of its next request and the ids of
\* the pages it has received, in order; `before` holds the rows that existed
\* when it sent its first request.
NoCursor == <<>>

NoLimit == <<>>

IdlePager ==
    [pc |-> "idle", rows |-> {}, before |-> {}, limit |-> NoLimit, backward |-> FALSE,
     start |-> NoCursor, cursor |-> NoCursor, seen |-> <<>>, status |-> 0]

\* One POST /callback: the handler, the payload, the parsed amount and the
\* response status.
IdleCallback ==
    [pc |-> "idle", handler |-> "", amount_str |-> "", asset_code |-> "",
     memo_type |-> "", amount |-> 0, status |-> 0]

\* The worker task spawned by main: where its loop stands, the interval
\* ticks that are due and not yet taken, and the run_settlements calls in
\* flight.
IdleJob == [pc |-> "waiting", due |-> 0, running |-> 0]

IdleRetry ==
    [pc |-> "idle", id |-> [kind |-> "none", n |-> 0], dlq_id |-> 0,
     response |-> NoResponse]

\* ------------------------------------------------------ pool managers: values
Primary == "primary"
Replicas == {"replica-1", "replica-2"}
Servers == {Primary} \cup Replicas
NoReplica == "none"
Intents == {"Read", "Write"}
UrlLists == {<<>>, <<"replica-1">>, <<"replica-1", "replica-2">>}

NoRoute == [intent |-> "", pool |-> ""]
NoProbe == [ran |-> FALSE, primary |-> TRUE, replica |-> TRUE]
IdleSearch == [pc |-> "idle", pool |-> "", status |-> 0]
IdleExec == [pc |-> "idle", query_type |-> "", i |-> 0, tried |-> <<>>, result |-> ""]
IdleCheck ==
    [pc |-> "idle", i |-> 0, primary_healthy |-> TRUE, outcomes |-> <<>>,
     healthy_replicas |-> 0, total_replicas |-> 0]

\* ReplicaPool { pool, healthy: true } for every url that connected
Connected(urls, alive) ==
    [i \in 1..Len(SelectSeq(urls, LAMBDA u : alive[u])) |->
        [pool |-> SelectSeq(urls, LAMBDA u : alive[u])[i], healthy |-> TRUE]]

\* Both managers were constructed: the primary connected (new returns Err
\* otherwise); db::pool_manager needs its one replica, when configured, to
\* connect; the failover manager keeps the replicas that connected.
RouterInit ==
    /\ up \in {f \in [Servers -> BOOLEAN] : f[Primary]}
    /\ replica \in {NoReplica} \cup {r \in {"replica-1"} : up[r]}
    /\ routed = NoRoute
    /\ probe = NoProbe
    /\ search = IdleSearch
    /\ replica_urls \in UrlLists
    /\ replicas = Connected(replica_urls, up)
    /\ exec = IdleExec
    /\ check = IdleCheck
    /\ failed = {}

\* No replica configured, no call made yet.
RouterIdle ==
    /\ up = [s \in Servers |-> TRUE]
    /\ replica = NoReplica
    /\ routed = NoRoute
    /\ probe = NoProbe
    /\ search = IdleSearch
    /\ replica_urls = <<>>
    /\ replicas = <<>>
    /\ exec = IdleExec
    /\ check = IdleCheck
    /\ failed = {}

AuxInit == rerun = IdleRerun /\ pager = IdlePager /\ cb = IdleCallback /\ job = IdleJob

OpsInit == retry = IdleRetry /\ RouterIdle /\ sweep = IdleSweep /\ AuxInit

\* ------------------------------------------------- idempotency: values
Keys == {"key-1", "key-2"}
Requests == {"q1", "q2"}
HandlerStatuses == {200, 201, 500}
PROCESSING_TTL == 300
IDEMPOTENCY_TTL == 86400
Absent == [value |-> "", ttl |-> 0]
SuccessBody == "{\"status\":\"success\"}"

\* serde_json::to_string(&CachedResponse { status, body })
Serialize(status, body) ==
    CASE status = 200 /\ body = SuccessBody ->
            "{\"status\":200,\"body\":\"{\\\"status\\\":\\\"success\\\"}\"}"
      [] status = 201 /\ body = SuccessBody ->
            "{\"status\":201,\"body\":\"{\\\"status\\\":\\\"success\\\"}\"}"
      [] OTHER -> "{\"status\":0,\"body\":\"\"}"

\* serde_json::from_str::<CachedResponse>(&value)
Deserialize(value) ==
    CASE value = "{\"status\":200,\"body\":\"{\\\"status\\\":\\\"success\\\"}\"}" ->
            [ok |-> TRUE, status |-> 200, body |-> SuccessBody]
      [] value = "{\"status\":201,\"body\":\"{\\\"status\\\":\\\"success\\\"}\"}" ->
            [ok |-> TRUE, status |-> 201, body |-> SuccessBody]
      [] OTHER -> [ok |-> FALSE, status |-> 0, body |-> ""]

\* response.status().is_success()
IsSuccess(status) == status >= 200 /\ status <= 299

IdleRequest ==
    [pc |-> "idle", key |-> "", outcome |-> "", runs |-> 0, handled |-> 0,
     response |-> [status |-> 0, body |-> ""],
     after_release |-> FALSE]  \* its GET ran while `released` held for its key

IdemInit ==
    /\ cache = [k \in Keys |-> Absent]
    /\ req = [r \in Requests |-> IdleRequest]
    /\ holders = [k \in Keys |-> 0]
    /\ stored = [k \in Keys |-> ""]
    /\ released = [k \in Keys |-> FALSE]

Init ==
    /\ now = 0
    /\ transactions = <<>>
    /\ settlements = <<>>
    /\ dlq = {}
    /\ nextDlq = 1
    /\ lock = [t \in TxIds |-> NoProc]
    /\ settler = [p \in Settlers |-> IdleSettler]
    /\ requeuer = [p \in Requeuers |-> IdleRequeuer]
    /\ IdemInit
    /\ OpsInit

Tick ==
    /\ now < MaxTime
    /\ now' = now + 1
    /\ UNCHANGED <<ops, idem, transactions, settlements, dlq, nextDlq, lock, settler, requeuer>>

\* Transaction::new + insert_transaction: a pending row without settlement.
\* mutant: the row is created as completed
NewTransaction_Completed(asset_code, amount) ==
    [status |-> "completed", asset_code |-> asset_code, amount |-> amount,
     created_at |-> now, updated_at |-> now, settlement_id |-> NULL]

NewTransaction(asset_code, amount) ==
    [status |-> "pending", asset_code |-> asset_code, amount |-> amount,
     created_at |-> now, updated_at |-> now, settlement_id |-> NULL]

InsertTransaction(asset_code, amount) ==
    /\ Len(transactions) < MaxTx
    /\ transactions' = Append(transactions, NewTransaction(asset_code, amount))
    /\ UNCHANGED <<ops, idem, settler, requeuer, now, settlements, dlq, nextDlq, lock>>

\* UPDATE transactions SET status = 'completed', updated_at = NOW() WHERE id = $1
SetCompleted(t) ==
    IF Exists(t)
    THEN [transactions EXCEPT ![t].status = "completed", ![t].updated_at = now]
    ELSE transactions

\* TransactionProcessor::process_transaction
ProcessTransaction(t) ==
    /\ lock[t] = NoProc
    /\ transactions' = SetCompleted(t)
    /\ UNCHANGED <<ops, idem, settler, requeuer, now, settlements, dlq, nextDlq, lock>>

\* cli::handle_tx_force_complete (same statement, RETURNING id)
ForceComplete(t) ==
    /\ lock[t] = NoProc
    /\ transactions' = SetCompleted(t)
    /\ UNCHANGED <<ops, idem, settler, requeuer, now, settlements, dlq, nextDlq, lock>>

\* MoveToDeadLetter(txId, reason, trace): one live DeadLetterEntry per
\* transaction; the status moves pending|completed -> dlq.
\* mutant: every move inserts a new entry, also while one is live
MoveToDeadLetter_AlwaysNew(t) ==
    /\ Exists(t)
    /\ lock[t] = NoProc
    /\ transactions[t].status \in {"pending", "completed"}
    /\ nextDlq <= MaxDlq
    /\ transactions' = [transactions EXCEPT ![t].status = "dlq", ![t].updated_at = now]
    /\ dlq' = dlq \cup {[id |-> nextDlq, transaction_id |-> t]}
    /\ nextDlq' = nextDlq + 1
    /\ UNCHANGED <<ops, idem, settler, requeuer, now, settlements, lock>>

MoveToDeadLetter(t) ==
    /\ Exists(t)
    /\ lock[t] = NoProc
    /\ transactions[t].status \in {"pending", "completed"}
    /\ \/ \E e \in dlq : e.transaction_id = t
       \/ nextDlq <= MaxDlq
    /\ transactions' = [transactions EXCEPT ![t].status = "dlq", ![t].updated_at = now]
    /\ IF \E e \in dlq : e.transaction_id = t
       THEN UNCHANGED <<dlq, nextDlq>>
       ELSE /\ dlq' = dlq \cup {[id |-> nextDlq, transaction_id |-> t]}
            /\ nextDlq' = nextDlq + 1
    /\ UNCHANGED <<ops, idem, settler, requeuer, now, settlements, lock>>

\* The same move while at most MaxMoves entries have been created.
FirstMoves(t) ==
    /\ (\E e \in dlq : e.transaction_id = t) \/ nextDlq <= MaxMoves
    /\ MoveToDeadLetter(t)

\* ------------------------------------------------ SettlementService::settle_asset
\* self.pool.begin(); end_time = Utc::now(); get_unsettled_transactions:
\* the SELECT evaluates its WHERE clause on the statement's snapshot ...
Candidates(asset_code, end_time) ==
    {t \in TxIds : Eligible(t, asset_code, end_time)}

SettleBegin(p, asset_code) ==
    /\ settler[p].pc \in {"idle", "done"}
    /\ settler' = [settler EXCEPT ![p] =
           [IdleSettler EXCEPT !.pc = "lock", !.asset = asset_code, !.end_time = now,
              !.todo = Candidates(asset_code, now)]]
    /\ UNCHANGED <<ops, idem, now, transactions, settlements, dlq, nextDlq, lock, requeuer>>

\* ... and FOR UPDATE locks each selected row: it waits while another store
\* transaction holds the row, then re-evaluates the WHERE clause on the row's
\* latest committed version and skips the row when it no longer matches.
\* mutant: the row is taken as selected, without re-evaluating the WHERE clause
LockRowGot_NoRecheck(p, t) == settler[p].got \cup {t}

LockRowGot(p, t) ==
    IF Eligible(t, settler[p].asset, settler[p].end_time)
    THEN settler[p].got \cup {t}
    ELSE settler[p].got

SettleLockRow(p, t) ==
    /\ settler[p].pc = "lock"
    /\ t \in settler[p].todo
    /\ lock[t] = NoProc
    /\ settler' = [settler EXCEPT ![p].todo = @ \ {t}, ![p].got = LockRowGot(p, t),
                                  ![p].skipped = @ \/ t \notin LockRowGot(p, t)]
    /\ lock' = IF t \in LockRowGot(p, t) THEN [lock EXCEPT ![t] = p] ELSE lock
    /\ UNCHANGED <<ops, idem, now, transactions, settlements, dlq, nextDlq, requeuer>>

ReleaseLocks(p) == [t \in TxIds |-> IF lock[t] = p THEN NoProc ELSE lock[t]]

\* if unsettled.is_empty() { tx.rollback(); return Ok(None) }
SettleEmpty(p) ==
    /\ settler[p].pc = "lock"
    /\ settler[p].todo = {}
    /\ settler[p].got = {}
    /\ settler' = [settler EXCEPT ![p] = Returned("None", settler[p].skipped)]
    /\ lock' = ReleaseLocks(p)
    /\ UNCHANGED <<ops, idem, now, transactions, settlements, dlq, nextDlq, requeuer>>

\* Iterator::min and Iterator::max over the rows read: the running minimum
\* (maximum), one element after the other
RECURSIVE MinOf(_)
MinOf(S) ==
    LET x == CHOOSE y \in S : TRUE IN
      IF S = {x} THEN x
      ELSE LET r == MinOf(S \ {x}) IN IF x < r THEN x ELSE r

RECURSIVE MaxOf(_)
MaxOf(S) ==
    LET x == CHOOSE y \in S : TRUE IN
      IF S = {x} THEN x
      ELSE LET r == MaxOf(S \ {x}) IN IF x > r THEN x ELSE r

\* period_start = unsettled.iter().map(|t| t.created_at).min()
PeriodStart(unsettled) == MinOf({transactions[t].created_at : t \in unsettled})

\* period_end = unsettled.iter().map(|t| t.updated_at).max()
\* mutant: the period ends at the newest created_at
PeriodEnd_MaxCreated(unsettled) == MaxOf({transactions[t].created_at : t \in unsettled})

PeriodEnd(unsettled) == MaxOf({transactions[t].updated_at : t \in unsettled})

\* tx_count, total_amount, the period and the Settlement struct
SettlementRow(asset_code, unsettled) ==
    [asset_code |-> asset_code,
     total_amount |-> SumAmounts(unsettled),
     tx_count |-> Cardinality(unsettled),
     period_start |-> PeriodStart(unsettled),
     period_end |-> PeriodEnd(unsettled),
     counted |-> unsettled]   \* the rows whose amounts the fold added up

\* insert_settlement and update_transactions_settlement (with its audit
\* rows), inside the store transaction: nothing is visible before COMMIT.
SettleInsertAndLink(p) ==
    /\ settler[p].pc = "lock"
    /\ settler[p].todo = {}
    /\ settler[p].got # {}
    /\ settler' = [settler EXCEPT ![p].pc = "commit",
           ![p].row = SettlementRow(settler[p].asset, settler[p].got)]
    /\ UNCHANGED <<ops, idem, now, transactions, settlements, dlq, nextDlq, lock, requeuer>>

\* UPDATE transactions SET settlement_id = $1, updated_at = NOW()
\* WHERE id = ANY($2); NOW() is the start time of the store transaction.
\* mutant: the UPDATE links every completed, unlinked row instead of = ANY($2)
LinkTransactions_AllUnsettled(rows, tx_ids, settlement_id, at) ==
    [t \in 1..Len(rows) |->
        IF rows[t].status = "completed" /\ rows[t].settlement_id = NULL
        THEN [rows[t] EXCEPT !.settlement_id = settlement_id, !.updated_at = at]
        ELSE rows[t]]

LinkTransactions(rows, tx_ids, settlement_id, at) ==
    [t \in 1..Len(rows) |->
        IF t \in tx_ids
        THEN [rows[t] EXCEPT !.settlement_id = settlement_id, !.updated_at = at]
        ELSE rows[t]]

\* tx.commit(): the settlement row and the links become visible together
\* and the row locks are released.
SettleCommit(p) ==
    /\ settler[p].pc = "commit"
    /\ settlements' = Append(settlements, settler[p].row)
    /\ transactions' = LinkTransactions(transactions, settler[p].got,
                                        Len(settlements) + 1, settler[p].end_time)
    /\ lock' = ReleaseLocks(p)
    /\ settler' = [settler EXCEPT ![p] =
           [Returned("Some", settler[p].skipped) EXCEPT !.saved = Len(settlements) + 1]]
    /\ UNCHANGED <<ops, idem, now, dlq, nextDlq, requeuer>>

\* Any statement of the store transaction fails (also: the store aborts it
\* as a deadlock victim) or the task is cancelled: `?` returns Err, the
\* sqlx Transaction is dropped and rolls back.
\* mutant: the settlement row inserted before the failure stays visible
RolledBack_KeepsInsert(p) ==
    IF settler[p].pc = "commit" THEN Append(settlements, settler[p].row) ELSE settlements

RolledBack(p) == settlements

SettleFail(p) ==
    /\ settler[p].pc \in {"lock", "commit"}
    /\ settler' = [settler EXCEPT ![p] = Returned("Err", settler[p].skipped)]
    /\ lock' = ReleaseLocks(p)
    /\ settlements' = RolledBack(p)
    /\ UNCHANGED <<ops, idem, now, transactions, dlq, nextDlq, requeuer>>

\* The FOR UPDATE scan of p waits: every row it still has to lock is held by
\* another store transaction (the SELECT has no ORDER BY, so the order in
\* which the rows are locked is the store's choice).
Blocked(p) ==
    /\ settler[p].pc = "lock"
    /\ settler[p].todo # {}
    /\ \A t \in settler[p].todo : lock[t] # NoProc

\* p is in a set of scans that wait for one another.
InDeadlock(p) ==
    \E D \in SUBSET Settlers :
        /\ p \in D
        /\ \A q \in D : Blocked(q) /\ \A t \in settler[q].todo : lock[t] \in D \ {q}

\* The store's deadlock detector aborts a waiting transaction of the cycle:
\* get_unsettled_transactions returns Err, settle_asset returns
\* Err(DatabaseError) and the dropped Transaction rolls back.
SettleDeadlock(p) ==
    /\ InDeadlock(p)
    /\ SettleFail(p)

\* ------------------------------------------ TransactionProcessor::requeue_dlq
\* Three statements, each run on the pool (autocommit), with `?` after each.
\* SELECT transaction_id FROM transaction_dlq WHERE id = $1 (fetch_one)
Selected(dlq_id) ==
    IF \E e \in dlq : e.id = dlq_id
    THEN LET e == CHOOSE x \in dlq : x.id = dlq_id
         IN [IdleRequeuer EXCEPT !.pc = "update", !.dlq_id = dlq_id,
                                 !.tx_id = e.transaction_id]
    ELSE [IdleRequeuer EXCEPT !.pc = "done", !.dlq_id = dlq_id,
                              !.result = "RowNotFound"]

RequeueSelect(p, dlq_id) ==
    /\ requeuer[p].pc \in {"idle", "done"}
    /\ requeuer' = [requeuer EXCEPT ![p] = Selected(dlq_id)]
    /\ UNCHANGED <<ops, idem, now, transactions, settlements, dlq, nextDlq, lock, settler>>

\* UPDATE transactions SET status = 'pending', updated_at = NOW() WHERE id = $1
\* mutant: the requeue UPDATE also resets settlement_id
SetPending_ClearsLink(t) ==
    IF Exists(t)
    THEN [transactions EXCEPT ![t].status = "pending", ![t].updated_at = now,
                              ![t].settlement_id = NULL]
    ELSE transactions

SetPending(t) ==
    IF Exists(t)
    THEN [transactions EXCEPT ![t].status = "pending", ![t].updated_at = now]
    ELSE transactions

RequeueUpdate(p) ==
    /\ requeuer[p].pc = "update"
    /\ lock[requeuer[p].tx_id] = NoProc
    /\ transactions' = SetPending(requeuer[p].tx_id)
    /\ requeuer' = [requeuer EXCEPT ![p].pc = "delete"]
    /\ UNCHANGED <<ops, idem, settler, now, settlements, dlq, nextDlq, lock>>

\* DELETE FROM transaction_dlq WHERE id = $1
\* mutant: the DELETE matches the dead-letter id against transaction_id
DeleteDlq_ByTransactionId(dlq_id) == {e \in dlq : e.transaction_id # dlq_id}

DeleteDlq(dlq_id) == {e \in dlq : e.id # dlq_id}

RequeueDelete(p) ==
    /\ requeuer[p].pc = "delete"
    /\ dlq' = DeleteDlq(requeuer[p].dlq_id)
    /\ requeuer' = [requeuer EXCEPT ![p].pc = "done", ![p].result = "Ok"]
    /\ UNCHANGED <<ops, idem, settler, now, transactions, settlements, nextDlq, lock>>

\* A statement returns a database error, or the task is cancelled or the
\* process dies before the next statement: nothing undoes the statements
\* that already ran.
RequeueFail(p) ==
    /\ requeuer[p].pc \in {"update", "delete"}
    /\ requeuer' = [requeuer EXCEPT ![p].pc = "done", ![p].result = "Err"]
    /\ UNCHANGED <<ops, idem, now, transactions, settlements, dlq, nextDlq, lock, settler>>

\* ------------------------------------------------ error.rs / handlers/dlq.rs
\* AppError::into_response: status_code(), code() and the Display text
DatabaseError(msg) ==
    [status |-> 500, code |-> "ERR_DATABASE_002", error |-> "Database error: " \o msg]
NotFound(msg) ==
    [status |-> 404, code |-> "ERR_NOT_FOUND_001", error |-> "Not found: " \o msg]
Requeued == [status |-> 200, code |-> "", error |-> ""]

\* e.to_string() of the error requeue_dlq returned: sqlx::Error::RowNotFound
\* from fetch_one, any other sqlx error from the pool or a statement
ErrorText(result) ==
    IF result = "RowNotFound"
    THEN "no rows returned by a query that expected to return at least one row"
    ELSE "error communicating with database"

\* handlers::dlq::requeue_dlq: map_err(|e| AppError::DatabaseError(e.to_string()))
RequeueDlqResponse(result) ==
    IF result = "Ok" THEN Requeued ELSE DatabaseError(ErrorText(result))

\* ------------------------------------------------- db/pool_manager.rs
\* The database servers stop and resume answering at any time.
Crash(srv) ==
    /\ up[srv]
    /\ up' = [up EXCEPT ![srv] = FALSE]
    /\ UNCHANGED <<db, idem, retry, sweep, aux, replica, routed, probe, search, replica_urls,
                   replicas, exec, check, failed>>

Recover(srv) ==
    /\ ~up[srv]
    /\ up' = [up EXCEPT ![srv] = TRUE]
    /\ UNCHANGED <<db, idem, retry, sweep, aux, replica, routed, probe, search, replica_urls,
                   replicas, exec, check, failed>>

\* PoolManager::get_pool
\* mutant: every intent is routed to the primary
GetPool_PrimaryOnly(intent) == Primary

GetPool(intent) ==
    IF intent = "Write" THEN Primary
    ELSE IF replica # NoReplica THEN replica ELSE Primary

Route(intent) ==
    /\ routed' = [intent |-> intent, pool |-> GetPool(intent)]
    /\ UNCHANGED <<db, idem, retry, sweep, aux, up, replica, probe, search, replica_urls,
                   replicas, exec, check, failed>>

\* PoolManager::health_check: SELECT 1 on the primary and on the replica;
\* the result is returned to the caller, the manager keeps nothing of it.
HealthCheck ==
    /\ probe' = [ran |-> TRUE, primary |-> up[Primary],
                 replica |-> IF replica # NoReplica THEN up[replica] ELSE TRUE]
    /\ UNCHANGED <<db, idem, retry, sweep, aux, up, replica, routed, search, replica_urls,
                   replicas, exec, check, failed>>

\* handlers::search::search_transactions:
\* pool_manager.replica().unwrap_or(pool_manager.primary())
SearchStart ==
    /\ search.pc \in {"idle", "done"}
    /\ search' = [IdleSearch EXCEPT !.pc = "query",
                     !.pool = IF replica # NoReplica THEN replica ELSE Primary]
    /\ UNCHANGED <<db, idem, retry, sweep, aux, up, replica, routed, probe, replica_urls,
                   replicas, exec, check, failed>>

\* queries::search_transactions(pool, ..): Ok -> 200, Err -> 500
SearchQuery ==
    /\ search.pc = "query"
    /\ search' = [search EXCEPT !.pc = "done",
                     !.status = IF up[search.pool] THEN 200 ELSE 500]
    /\ UNCHANGED <<db, idem, retry, sweep, aux, up, replica, routed, probe, replica_urls,
                   replicas, exec, check, failed>>

\* ------------------------ Database Pool Manager Failover Tests/src/db/pool_manager.rs
\* execute_query. The replicas are read under self.replicas.read(), held
\* until drop(replicas); check_health works under self.replicas.write().
ExecStart(query_type) ==
    /\ exec.pc \in {"idle", "done"}
    /\ query_type = "Read" => check.pc # "replicas"
    /\ exec' = [IdleExec EXCEPT !.query_type = query_type,
                   !.pc = IF query_type = "Write" THEN "primary" ELSE "replicas",
                   !.i = 1]
    /\ UNCHANGED <<db, idem, retry, sweep, aux, up, replica, routed, probe, search, replica_urls,
                   replicas, check, failed>>

\* for replica in replicas.iter(): if replica.healthy { query_fn(&replica.pool) }:
\* Ok returns the result, Err is logged and the loop continues.
Usable(r) == r.healthy

ExecReplica ==
    /\ exec.pc = "replicas"
    /\ exec.i <= Len(replicas)
    /\ LET r == replicas[exec.i] IN
         IF ~Usable(r)
         THEN /\ exec' = [exec EXCEPT !.i = @ + 1]
              /\ UNCHANGED failed
         ELSE IF up[r.pool]
         THEN /\ exec' = [exec EXCEPT !.pc = "done", !.tried = Append(@, r.pool),
                                      !.result = r.pool]
              /\ UNCHANGED failed
         ELSE /\ exec' = [exec EXCEPT !.i = @ + 1, !.tried = Append(@, r.pool)]
              /\ failed' = failed \cup {r.pool}
    /\ UNCHANGED <<db, idem, retry, sweep, aux, up, replica, routed, probe, search, replica_urls,
                   replicas, check>>

\* drop(replicas): every replica was skipped or failed
ExecFallback ==
    /\ exec.pc = "replicas"
    /\ exec.i > Len(replicas)
    /\ exec' = [exec EXCEPT !.pc = "primary"]
    /\ UNCHANGED <<db, idem, retry, sweep, aux, up, replica, routed, probe, search, replica_urls,
                   replicas, check, failed>>

\* query_fn(&self.primary).await?  (the Write branch and the read fallback)
\* mutant: a failed write is run again on the first replica
AfterPrimary_WriteFallsBack ==
    IF up[Primary]
    THEN [exec EXCEPT !.pc = "done", !.tried = Append(@, Primary), !.result = Primary]
    ELSE IF exec.query_type = "Write" /\ Len(replicas) > 0
    THEN [exec EXCEPT !.pc = "done", !.tried = @ \o <<Primary, replicas[1].pool>>,
                      !.result = IF up[replicas[1].pool] THEN replicas[1].pool ELSE "Err"]
    ELSE [exec EXCEPT !.pc = "done", !.tried = Append(@, Primary), !.result = "Err"]

AfterPrimary ==
    [exec EXCEPT !.pc = "done", !.tried = Append(@, Primary),
                 !.result = IF up[Primary] THEN Primary ELSE "Err"]

ExecPrimary ==
    /\ exec.pc = "primary"
    /\ exec' = AfterPrimary
    /\ UNCHANGED <<db, idem, retry, sweep, aux, up, replica, routed, probe, search, replica_urls,
                   replicas, check, failed>>

\* check_health: SELECT 1 on the primary, ...
CheckStart ==
    /\ check.pc \in {"idle", "done"}
    /\ check' = [IdleCheck EXCEPT !.pc = "lock", !.primary_healthy = up[Primary]]
    /\ UNCHANGED <<db, idem, retry, sweep, aux, up, replica, routed, probe, search, replica_urls,
                   replicas, exec, failed>>

\* ... self.replicas.write(): waits for the readers, ...
CheckLock ==
    /\ check.pc = "lock"
    /\ exec.pc # "replicas"
    /\ check' = [check EXCEPT !.pc = "replicas", !.i = 1]
    /\ UNCHANGED <<db, idem, retry, sweep, aux, up, replica, routed, probe, search, replica_urls,
                   replicas, exec, failed>>

\* ... SELECT 1 on each replica: replica.healthy = is_healthy, and the
\* count of healthy replicas, ...
\* mutant: a replica once flagged unhealthy keeps its flag
Flag_Sticky(old, is_healthy) == old /\ is_healthy

Flag(old, is_healthy) == is_healthy

CheckReplica ==
    /\ check.pc = "replicas"
    /\ check.i <= Len(replicas)
    /\ LET is_healthy == up[replicas[check.i].pool] IN
         /\ replicas' = [replicas EXCEPT ![check.i].healthy = Flag(@, is_healthy)]
         /\ check' = [check EXCEPT !.i = @ + 1,
                          !.outcomes = Append(@, is_healthy),
                          !.healthy_replicas = IF is_healthy THEN @ + 1 ELSE @]
         /\ failed' = IF is_healthy THEN failed \ {replicas[check.i].pool} ELSE failed
    /\ UNCHANGED <<db, idem, retry, sweep, aux, up, replica, routed, probe, search, replica_urls,
                   exec>>

\* ... and Ok(HealthStatus { .., total_replicas: replicas.len() })
CheckDone ==
    /\ check.pc = "replicas"
    /\ check.i > Len(replicas)
    /\ check' = [check EXCEPT !.pc = "done", !.total_replicas = Len(replicas)]
    /\ UNCHANGED <<db, idem, retry, sweep, aux, up, replica, routed, probe, search, replica_urls,
                   replicas, exec, failed>>

\* ------------------------------------------ SettlementService::run_settlements
\* queries::get_unique_assets_to_settle: SELECT DISTINCT asset_code FROM
\* transactions WHERE status = 'completed' AND settlement_id IS NULL
GetUniqueAssetsToSettle ==
    {transactions[t].asset_code :
        t \in {u \in 1..Len(transactions) :
                  /\ transactions[u].status = "completed"
                  /\ transactions[u].settlement_id = NULL}}

\* The rows of a SELECT DISTINCT without ORDER BY come in any order.
Orderings(S) ==
    {f \in [1..Cardinality(S) -> S] : \A i, j \in 1..Cardinality(S) : f[i] = f[j] => i = j}

\* run_settlements is awaited by one task (the loop of main.rs); its
\* settle_asset calls are the invocations of this settler.
SweepSettler == "s1"

\* let assets = get_unique_assets_to_settle(..)?; let mut results = Vec::new()
RunSettlements ==
    /\ sweep.pc \in {"idle", "done"}
    /\ settler[SweepSettler].pc = "idle"
    /\ \E assets \in Orderings(GetUniqueAssetsToSettle) :
          sweep' = [IdleSweep EXCEPT !.pc = "loop", !.assets = assets,
                       !.discovered = GetUniqueAssetsToSettle,
                       !.first = Len(settlements)]
    /\ UNCHANGED <<db, idem, retry, router, aux>>

\* .map_err(|e| AppError::DatabaseError(e.to_string()))? on the discovery query
RunSettlementsFail ==
    /\ sweep.pc \in {"idle", "done"}
    /\ settler[SweepSettler].pc = "idle"
    /\ sweep' = [IdleSweep EXCEPT !.pc = "done",
                    !.response = [kind |-> "Err", error |-> DatabaseError("query failed"),
                                  results |-> <<>>]]
    /\ UNCHANGED <<db, idem, retry, router, aux>>

\* for asset in assets { ..
RunNextAsset ==
    /\ sweep.pc = "loop"
    /\ sweep.assets # <<>>
    /\ sweep' = [sweep EXCEPT !.pc = "call", !.asset = Head(sweep.assets),
                    !.assets = Tail(@), !.called = Append(@, Head(sweep.assets))]
    /\ UNCHANGED <<db, idem, retry, router, aux>>

\* .. self.settle_asset(&asset).await ..
RunSettleAsset ==
    /\ sweep.pc = "call"
    /\ settler[SweepSettler].pc = "idle"
    /\ SettleBegin(SweepSettler, sweep.asset)

\* .. match: Ok(Some(settlement)) => results.push(settlement),
\* Ok(None) => info!, Err(e) => error! }: every arm goes on with the loop.
\* mutant: the Err arm returns the error to the caller (settle_asset(..)?)
AfterSettleAsset_Propagates(returned) ==
    IF returned.result = "Some"
    THEN [sweep EXCEPT !.pc = "loop", !.results = Append(@, returned.saved)]
    ELSE IF returned.result = "None"
    THEN [sweep EXCEPT !.pc = "loop"]
    ELSE [sweep EXCEPT !.pc = "done",
             !.response = [kind |-> "Err", error |-> DatabaseError("settle failed"),
                           results |-> <<>>]]

AfterSettleAsset(returned) ==
    IF returned.result = "Some"
    THEN [sweep EXCEPT !.pc = "loop", !.results = Append(@, returned.saved)]
    ELSE IF returned.result = "None"
    THEN [sweep EXCEPT !.pc = "loop"]
    ELSE [sweep EXCEPT !.pc = "loop", !.logged = @ \cup {sweep.asset}]

RunMatch ==
    /\ sweep.pc = "call"
    /\ settler[SweepSettler].pc = "done"
    /\ sweep' = AfterSettleAsset(settler[SweepSettler])
    /\ settler' = [settler EXCEPT ![SweepSettler] = IdleSettler]
    /\ UNCHANGED <<idem, retry, router, aux, now, transactions, settlements, dlq, nextDlq,
                   lock, requeuer>>

\* Ok(results)
RunReturn ==
    /\ sweep.pc = "loop"
    /\ sweep.assets = <<>>
    /\ sweep' = [sweep EXCEPT !.pc = "done",
                    !.response = [kind |-> "Ok", error |-> NoResponse,
                                  results |-> sweep.results]]
    /\ UNCHANGED <<db, idem, retry, router, aux>>

\* ------------------------------- settle_asset, called twice in a row
\* The completions a settlement has still to pick up: the completed rows
\* without settlement, each with the time of its UPDATE.
Completed ==
    {<<t, transactions[t].updated_at>> :
        t \in {u \in 1..Len(transactions) :
                  /\ transactions[u].status = "completed"
                  /\ transactions[u].settlement_id = NULL}}

RerunSettler == "s1"

RerunStart(asset_code) ==
    /\ rerun.pc \in {"idle", "done"}
    /\ settler[RerunSettler].pc = "idle"
    /\ rerun' = [IdleRerun EXCEPT !.pc = "first", !.asset = asset_code,
                    !.completed = Completed]
    /\ UNCHANGED <<db, idem, retry, router, sweep, pager, cb, job>>

\* service.settle_asset(asset).await, the first and the second time
RerunSettleAsset ==
    /\ rerun.pc \in {"first", "second"}
    /\ settler[RerunSettler].pc = "idle"
    /\ SettleBegin(RerunSettler, rerun.asset)

\* The call returned. After Ok(Some(_)) the caller calls again at once;
\* after Ok(None) or Err there was no successful run to repeat.
RerunReturned ==
    /\ rerun.pc \in {"first", "second"}
    /\ settler[RerunSettler].pc = "done"
    /\ rerun' =
         IF rerun.pc = "second"
         THEN [rerun EXCEPT !.pc = "done", !.second = settler[RerunSettler].result]
         ELSE [rerun EXCEPT !.first = settler[RerunSettler].result,
                  !.pc = IF settler[RerunSettler].result = "Some" THEN "second" ELSE "done"]
    /\ settler' = [settler EXCEPT ![RerunSettler] = IdleSettler]
    /\ UNCHANGED <<idem, retry, router, sweep, pager, cb, job, now, transactions,
                   settlements, dlq, nextDlq, lock, requeuer>>

\* ------------------------------------------ utils/cursor.rs
\* encode: base64 of "<created_at as RFC 3339>|<id>"; decode splits at the
\* first '|' and parses both parts, or fails.
Encode(created_at, id) == <<created_at, "|", id>>

Decode(cursor) ==
    IF Len(cursor) = 3 /\ cursor[2] = "|" /\ cursor[1] \in Nat /\ cursor[3] \in Nat
    THEN [ok |-> TRUE, ts |-> cursor[1], id |-> cursor[3]]
    ELSE [ok |-> FALSE, ts |-> 0, id |-> 0]

\* ------------------------------------------ queries::list_transactions
\* The row comparison (created_at, id) < ($1, $2) of the WHERE clauses and
\* the order of ORDER BY created_at, id.
\* mutant: the WHERE clause compares created_at only
RowLess_TimestampOnly(a, b) == a[1] < b[1]

\* mutant: the comparison is <=, the cursor's own row matches again
RowLess_Inclusive(a, b) == a[1] < b[1] \/ (a[1] = b[1] /\ a[2] <= b[2])

RowLess(a, b) == a[1] < b[1] \/ (a[1] = b[1] /\ a[2] < b[2])

OrderLess(a, b) == a[1] < b[1] \/ (a[1] = b[1] /\ a[2] < b[2])

RECURSIVE SortAsc(_)
SortAsc(S) ==
    IF S = {} THEN <<>>
    ELSE LET m == CHOOSE x \in S : \A y \in S \ {x} : OrderLess(x, y)
         IN <<m>> \o SortAsc(S \ {m})

Reverse(seq) == [i \in 1..Len(seq) |-> seq[Len(seq) + 1 - i]]

\* LIMIT $n
Take(seq, n) == SubSeq(seq, 1, IF n < Len(seq) THEN n ELSE Len(seq))

ListTransactions(rows, limit, cursor, backward) ==
    IF cursor.ok
    THEN IF ~backward
         THEN Take(Reverse(SortAsc({r \in rows : RowLess(r, <<cursor.ts, cursor.id>>)})), limit)
         ELSE Reverse(Take(SortAsc({r \in rows : RowLess(<<cursor.ts, cursor.id>>, r)}), limit))
    ELSE IF ~backward
         THEN Take(Reverse(SortAsc(rows)), limit)
         ELSE Reverse(Take(SortAsc(rows), limit))

\* ------------------------------------------ handlers::webhook::list_transactions
DEFAULT_LIMIT == 25
MAX_LIMIT == 100

\* params.limit.unwrap_or(25).min(100)
PageLimit(limit) ==
    LET given == IF limit = NoLimit THEN DEFAULT_LIMIT ELSE limit[1]
    IN IF given < MAX_LIMIT THEN given ELSE MAX_LIMIT

\* fetch limit + 1 rows, has_more = rows.len() > limit, truncate(limit),
\* next_cursor = the last row kept
ListResponse(rows, limit, cursor, backward) ==
    LET fetched == ListTransactions(rows, PageLimit(limit) + 1,
                       IF cursor = NoCursor THEN [ok |-> FALSE, ts |-> 0, id |-> 0]
                       ELSE Decode(cursor), backward)
        has_more == Len(fetched) > PageLimit(limit)
        data == IF has_more THEN SubSeq(fetched, 1, PageLimit(limit)) ELSE fetched
    IN [status |-> 200, data |-> data, has_more |-> has_more,
        next_cursor |-> IF data = <<>> THEN NoCursor
                        ELSE Encode(data[Len(data)][1], data[Len(data)][2])]

PageIds == 1..MaxRows

Times == 0..MaxTime

Limits == {NoLimit, <<1>>, <<2>>, <<MAX_LIMIT + 1>>}

Cursors == {NoCursor, <<"garbage">>} \cup {Encode(ts, id) : ts \in Times, id \in PageIds}

\* insert_transaction by any worker: a fresh id, created_at as the worker
\* read the clock; no row is written once the traversal has begun.
PageInsert(created_at, id) ==
    /\ pager.pc = "idle"
    /\ \A r \in pager.rows : r[2] # id
    /\ pager' = [pager EXCEPT !.rows = @ \cup {<<created_at, id>>}]
    /\ UNCHANGED <<db, idem, retry, router, sweep, rerun, cb, job>>

\* insert_transaction by a worker while the client is between two pages:
\* created_at was read by Transaction::new before the INSERT ran, so the new
\* row may sort before or after the rows already returned.
PageInsertDuring(created_at, id) ==
    /\ pager.pc = "paging"
    /\ \A r \in pager.rows : r[2] # id
    /\ pager' = [pager EXCEPT !.rows = @ \cup {<<created_at, id>>}]
    /\ UNCHANGED <<db, idem, retry, router, sweep, rerun, cb, job>>

\* The client chooses limit, direction and the cursor to start from.
PageStart(limit, backward, cursor) ==
    /\ pager.pc = "idle"
    /\ pager' = [pager EXCEPT !.pc = "paging", !.limit = limit, !.backward = backward,
                    !.start = cursor, !.cursor = cursor, !.before = pager.rows]
    /\ UNCHANGED <<db, idem, retry, router, sweep, rerun, cb, job>>

\* One GET /transactions?cursor=..&limit=..&direction=..: an invalid cursor
\* is answered 400; otherwise the client keeps the page and goes on with
\* next_cursor while has_more is true.
PageGet ==
    /\ pager.pc = "paging"
    /\ IF pager.cursor # NoCursor /\ ~Decode(pager.cursor).ok
       THEN pager' = [pager EXCEPT !.pc = "done", !.status = 400]
       ELSE LET resp == ListResponse(pager.rows, pager.limit, pager.cursor, pager.backward)
            IN pager' = [pager EXCEPT
                   !.seen = @ \o [i \in 1..Len(resp.data) |-> resp.data[i][2]],
                   !.status = resp.status,
                   !.cursor = IF resp.has_more THEN resp.next_cursor ELSE @,
                   !.pc = IF resp.has_more THEN "paging" ELSE "done"]
    /\ UNCHANGED <<db, idem, retry, router, sweep, rerun, cb, job>>

\* ------------------------------------------ handlers::webhook::callback
\* The amount strings a caller may send and BigDecimal::from_str on them.
AmountStrings == {"-1", "0", "1", "2", "abc"}

ParseBigDecimal(str) ==
    IF str = "-1" THEN [ok |-> TRUE, value |-> -1]
    ELSE IF str = "0" THEN [ok |-> TRUE, value |-> 0]
    ELSE IF str = "1" THEN [ok |-> TRUE, value |-> 1]
    ELSE IF str = "2" THEN [ok |-> TRUE, value |-> 2]
    ELSE [ok |-> FALSE, value |-> 0]

MemoTypes == {"none", "text", "memo"}

\* validate_memo_type: None, or Some of "text" | "hash" | "id"
ValidateMemoType(memo_type) == memo_type \in {"none", "text", "hash", "id"}

\* validation::validate_positive_amount
ValidatePositiveAmount(amount) == amount > 0

\* The checks each handler makes before it touches the store: callback
\* (routed at /callback and /callback/transaction) validates memo_type and
\* parses the amount; transaction_callback calls validate_webhook_payload,
\* which parses the amount and requires it to be positive.
Accepts(handler, amount_str, memo_type) ==
    IF handler = "callback"
    THEN ValidateMemoType(memo_type) /\ ParseBigDecimal(amount_str).ok
    ELSE /\ ParseBigDecimal(amount_str).ok
         /\ ValidatePositiveAmount(ParseBigDecimal(amount_str).value)

Handlers == {"callback", "transaction_callback"}

CallbackReceive(handler, amount_str, asset_code, memo_type) ==
    /\ cb.pc \in {"idle", "done"}
    /\ cb' = IF Accepts(handler, amount_str, memo_type)
             THEN [IdleCallback EXCEPT !.pc = "insert", !.handler = handler,
                      !.amount_str = amount_str, !.asset_code = asset_code,
                      !.memo_type = memo_type,
                      !.amount = ParseBigDecimal(amount_str).value]
             ELSE [IdleCallback EXCEPT !.pc = "done", !.handler = handler,
                      !.amount_str = amount_str, !.asset_code = asset_code,
                      !.memo_type = memo_type, !.status = 400]
    /\ UNCHANGED <<db, idem, retry, router, sweep, rerun, pager, job>>

\* queries::insert_transaction(&db, &tx): INSERT .. RETURNING *, one
\* statement; Ok -> 201 Created with the row
CallbackInsert ==
    /\ cb.pc = "insert"
    /\ Len(transactions) < MaxTx
    /\ transactions' = Append(transactions, NewTransaction(cb.asset_code, cb.amount))
    /\ cb' = [cb EXCEPT !.pc = "done", !.status = 201]
    /\ UNCHANGED <<idem, retry, router, sweep, rerun, pager, job, now, settlements,
                   dlq, nextDlq, lock, settler, requeuer>>

\* the statement fails: nothing is written, Err -> 500
CallbackInsertFail ==
    /\ cb.pc = "insert"
    /\ cb' = [cb EXCEPT !.pc = "done", !.status = 500]
    /\ UNCHANGED <<db, idem, retry, router, sweep, rerun, pager, job>>

\* ------------------------------------------ main.rs: settlement worker
\* tokio::time::interval(3600 s): a period elapses. A tick that is not
\* taken in time stays due (MissedTickBehavior::Burst, the default).
JobTimer ==
    /\ job.due < MaxDue
    /\ job' = [job EXCEPT !.due = @ + 1]
    /\ UNCHANGED <<db, idem, retry, router, sweep, rerun, pager, cb>>

\* loop { interval.tick().await; .. service.run_settlements().await .. }:
\* the one task takes a due tick only when it is back at the top of the loop.
\* mutant: every due tick starts a sweep of its own (a task spawned per tick)
CanTick_SpawnPerTick == job.due > 0

CanTick == job.pc = "waiting" /\ job.due > 0

JobTick ==
    /\ CanTick
    /\ job' = [job EXCEPT !.pc = "running", !.due = @ - 1, !.running = @ + 1]
    /\ UNCHANGED <<db, idem, retry, router, sweep, rerun, pager, cb>>

\* service.run_settlements(): the discovery query succeeds ...
JobRunSettlements ==
    /\ job.pc = "running"
    /\ sweep.pc = "idle"
    /\ RunSettlements

\* ... or fails
JobRunSettlementsFail ==
    /\ job.pc = "running"
    /\ sweep.pc = "idle"
    /\ RunSettlementsFail

\* match .. { Ok(results) => info!, Err(e) => error! } and back to the top
JobReturn ==
    /\ job.pc = "running"
    /\ sweep.pc = "done"
    /\ job' = [job EXCEPT !.pc = "waiting", !.running = @ - 1]
    /\ sweep' = IdleSweep
    /\ UNCHANGED <<db, idem, retry, router, rerun, pager, cb>>

\* ------------------------------------------ handlers::admin::retry_transaction
\* AppError::Database (from sqlx::Error with `?`)
Database(msg) ==
    [status |-> 500, code |-> "ERR_DATABASE_001", error |-> "Database error: " \o msg]

\* The requeue_dlq calls of retry_transaction run on this requeuer.
RetryProcessor == "r1"

\* processor.requeue_dlq(id), up to its SELECT
RetryStart(id) ==
    /\ Issued(id)
    /\ retry.pc \in {"idle", "done"}
    /\ requeuer[RetryProcessor].pc \in {"idle", "done"}
    /\ retry' = [IdleRetry EXCEPT !.pc = "first", !.id = id]
    /\ requeuer' = [requeuer EXCEPT ![RetryProcessor] = Selected(AsDlqId(id))]
    /\ UNCHANGED <<router, sweep, aux, idem, now, transactions, settlements, dlq, nextDlq, lock, settler>>

\* if let Ok(_) = processor.requeue_dlq(id).await { return Ok(..) }: any
\* error of the first attempt falls through to the lookup.
RetryFirstDone ==
    /\ retry.pc = "first"
    /\ requeuer[RetryProcessor].pc = "done"
    /\ retry' = IF requeuer[RetryProcessor].result = "Ok"
                THEN [retry EXCEPT !.pc = "done", !.response = Requeued]
                ELSE [retry EXCEPT !.pc = "lookup"]
    /\ UNCHANGED <<router, sweep, aux, db, idem>>

\* SELECT id FROM transaction_dlq WHERE transaction_id = $1 (fetch_optional):
\* Some(row) -> processor.requeue_dlq(dlq_id); None -> AppError::NotFound
RetryLookup ==
    /\ retry.pc = "lookup"
    /\ IF \E e \in dlq : e.transaction_id = AsTxId(retry.id)
       THEN LET e == CHOOSE x \in dlq : x.transaction_id = AsTxId(retry.id)
            IN /\ retry' = [retry EXCEPT !.pc = "second", !.dlq_id = e.id]
               /\ requeuer' = [requeuer EXCEPT ![RetryProcessor] = Selected(e.id)]
       ELSE /\ retry' = [retry EXCEPT !.pc = "done",
                            !.response = NotFound("No failed transaction found with ID")]
            /\ UNCHANGED requeuer
    /\ UNCHANGED <<router, sweep, aux, idem, now, transactions, settlements, dlq, nextDlq, lock, settler>>

\* The lookup itself fails: `?` returns AppError::Database.
RetryLookupFail ==
    /\ retry.pc = "lookup"
    /\ retry' = [retry EXCEPT !.pc = "done",
                     !.response = Database(ErrorText("Err"))]
    /\ UNCHANGED <<router, sweep, aux, db, idem>>

\* processor.requeue_dlq(dlq_id).await?: Ok, or the error is propagated.
RetrySecondDone ==
    /\ retry.pc = "second"
    /\ requeuer[RetryProcessor].pc = "done"
    /\ retry' = [retry EXCEPT !.pc = "done",
                     !.response = IF requeuer[RetryProcessor].result = "Ok"
                                  THEN Requeued
                                  ELSE Database(ErrorText(requeuer[RetryProcessor].result))]
    /\ UNCHANGED <<router, sweep, aux, db, idem>>

\* The settlement engine under load: the clock advances, transactions arrive
\* and are completed (by the processor or by force-complete) while
\* settle_asset runs concurrently on the same or on different assets.
NextSettle ==
    \/ Tick
    \/ \E a \in Assets, m \in Amounts : InsertTransaction(a, m)
    \/ \E t \in TxIds : ProcessTransaction(t)
    \/ \E t \in TxIds : ForceComplete(t)
    \/ \E p \in Settlers, a \in Assets : SettleBegin(p, a)
    \/ \E p \in Settlers, t \in TxIds : SettleLockRow(p, t)
    \/ \E p \in Settlers : SettleEmpty(p)
    \/ \E p \in Settlers : SettleInsertAndLink(p)
    \/ \E p \in Settlers : SettleCommit(p)
    \/ \E p \in Settlers : SettleFail(p)

SpecSettle == Init /\ [][NextSettle]_vars

\* Every operation that writes the transactions table, interleaved: inserts,
\* the status updates, the dead-letter path and concurrent settle_asset
\* runs, all within one reading of the clock (no row is newer than a run's
\* end_time).
Next ==
    \/ \E a \in Assets, m \in Amounts : InsertTransaction(a, m)
    \/ \E t \in TxIds : ProcessTransaction(t)
    \/ \E t \in TxIds : ForceComplete(t)
    \/ \E t \in TxIds : FirstMoves(t)
    \/ \E p \in Settlers, a \in Assets : SettleBegin(p, a)
    \/ \E p \in Settlers, t \in TxIds : SettleLockRow(p, t)
    \/ \E p \in Settlers : SettleEmpty(p)
    \/ \E p \in Settlers : SettleInsertAndLink(p)
    \/ \E p \in Settlers : SettleCommit(p)
    \/ \E p \in Settlers : SettleFail(p)
    \/ \E p \in Requeuers, d \in DlqIds : RequeueSelect(p, d)
    \/ \E p \in Requeuers : RequeueUpdate(p)
    \/ \E p \in Requeuers : RequeueDelete(p)
    \/ \E p \in Requeuers : RequeueFail(p)

Spec == Init /\ [][Next]_vars

\* A store holding transactions that were inserted and, some of them,
\* processed: the starting point of the scenarios below.
StoredRows ==
    [status : {"pending", "completed"}, asset_code : Assets, amount : Amounts,
     created_at : {0}, updated_at : {0}, settlement_id : {NULL}]

InitStore ==
    /\ now = 0
    /\ transactions \in UNION {[1..n -> StoredRows] : n \in 1..MaxTx}
    /\ settlements = <<>>
    /\ dlq = {}
    /\ nextDlq = 1
    /\ lock = [t \in TxIds |-> NoProc]
    /\ settler = [p \in Settlers |-> IdleSettler]
    /\ requeuer = [p \in Requeuers |-> IdleRequeuer]
    /\ IdemInit
    /\ OpsInit

\* Two settle_asset invocations on one asset and nothing else.
PairAsset == "USD"

SettleOnce(p) ==
    /\ settler[p].pc = "idle"
    /\ SettleBegin(p, PairAsset)

NextPair ==
    \/ \E p \in Settlers : SettleOnce(p)
    \/ \E p \in Settlers, t \in TxIds : SettleLockRow(p, t)
    \/ \E p \in Settlers : SettleEmpty(p)
    \/ \E p \in Settlers : SettleInsertAndLink(p)
    \/ \E p \in Settlers : SettleCommit(p)
    \/ \E p \in Settlers : SettleFail(p)

SpecPair == InitStore /\ [][NextPair]_vars

\* MoveToDeadLetter followed by requeue_dlq, and nothing else: a transaction
\* is quarantined only while no requeue is in progress.
Quarantine(t) ==
    /\ \A p \in Requeuers : requeuer[p].pc \in {"idle", "done"}
    /\ MoveToDeadLetter(t)

NextRoundTrip ==
    \/ \E t \in TxIds : Quarantine(t)
    \/ \E p \in Requeuers, d \in DlqIds : RequeueSelect(p, d)
    \/ \E p \in Requeuers : RequeueUpdate(p)
    \/ \E p \in Requeuers : RequeueDelete(p)
    \/ \E p \in Requeuers : RequeueFail(p)

SpecRoundTrip == InitStore /\ [][NextRoundTrip]_vars

\* The admin retry endpoint over a store with dead-letter entries: whole
\* transactions are quarantined, retried by dead-letter id or by transaction
\* id, and the statements of requeue_dlq may fail.
NextRetry ==
    \/ \E t \in TxIds : Quarantine(t)
    \/ \E id \in RetryIds : RetryStart(id)
    \/ RetryFirstDone
    \/ RetryLookup
    \/ RetryLookupFail
    \/ RetrySecondDone
    \/ \E p \in Requeuers : RequeueUpdate(p)
    \/ \E p \in Requeuers : RequeueDelete(p)
    \/ \E p \in Requeuers : RequeueFail(p)

SpecRetry == InitStore /\ [][NextRetry]_vars

\* The settlement sweep over a store of transactions, while transactions are
\* completed and a second task (a second instance, or a manual run) settles
\* single assets.
Competitor == "s2"

NextSweep ==
    \/ RunSettlements
    \/ RunSettlementsFail
    \/ RunNextAsset
    \/ RunSettleAsset
    \/ RunMatch
    \/ RunReturn
    \/ \E t \in TxIds : ProcessTransaction(t)
    \/ \E a \in Assets : SettleBegin(Competitor, a)
    \/ \E p \in Settlers, t \in TxIds : SettleLockRow(p, t)
    \/ \E p \in Settlers : SettleEmpty(p)
    \/ \E p \in Settlers : SettleInsertAndLink(p)
    \/ \E p \in Settlers : SettleCommit(p)
    \/ \E p \in Settlers : SettleFail(p)

SpecSweep == InitStore /\ [][NextSweep]_vars

\* settle_asset run twice in a row on one asset, while the clock advances,
\* transactions are processed and a second task settles single assets.
NextRerun ==
    \/ Tick
    \/ \E a \in Assets : RerunStart(a)
    \/ RerunSettleAsset
    \/ RerunReturned
    \/ \E t \in TxIds : ProcessTransaction(t)
    \/ \E a \in Assets : SettleBegin(Competitor, a)
    \/ \E p \in Settlers, t \in TxIds : SettleLockRow(p, t)
    \/ \E p \in Settlers : SettleEmpty(p)
    \/ \E p \in Settlers : SettleInsertAndLink(p)
    \/ \E p \in Settlers : SettleCommit(p)
    \/ \E p \in Settlers : SettleFail(p)

SpecRerun == InitStore /\ [][NextRerun]_vars

\* Workers insert transactions, then a client pages through them.
NextPage ==
    \/ \E ts \in Times, id \in PageIds : PageInsert(ts, id)
    \/ \E limit \in Limits, backward \in BOOLEAN, cursor \in Cursors :
          PageStart(limit, backward, cursor)
    \/ PageGet

SpecPage == Init /\ [][NextPage]_vars

\* Settlement workers contending for the same rows while transactions are
\* force-completed, quarantined and requeued. Every statement the store can
\* run is run in the end, a waiting lock request is served when the lock is
\* released (the store queues the waiters), and a deadlock is detected.
NextContend ==
    \/ \E p \in Settlers, a \in Assets : SettleBegin(p, a)
    \/ \E p \in Settlers, t \in TxIds : SettleLockRow(p, t)
    \/ \E p \in Settlers : SettleEmpty(p)
    \/ \E p \in Settlers : SettleInsertAndLink(p)
    \/ \E p \in Settlers : SettleCommit(p)
    \/ \E p \in Settlers : SettleDeadlock(p)
    \/ \E t \in TxIds : ForceComplete(t)
    \/ \E t \in TxIds : FirstMoves(t)
    \/ \E p \in Requeuers, d \in DlqIds : RequeueSelect(p, d)
    \/ \E p \in Requeuers : RequeueUpdate(p)
    \/ \E p \in Requeuers : RequeueDelete(p)

ContendFair ==
    \A p \in Settlers :
        /\ SF_vars(\E t \in TxIds : SettleLockRow(p, t))
        /\ WF_vars(SettleEmpty(p))
        /\ WF_vars(SettleInsertAndLink(p))
        /\ WF_vars(SettleCommit(p))
        /\ WF_vars(SettleDeadlock(p))

SpecContend == InitStore /\ [][NextContend]_vars /\ ContendFair

\* The same client while workers keep inserting transactions.
NextPageLive ==
    \/ \E ts \in Times, id \in PageIds : PageInsert(ts, id)
    \/ \E limit \in Limits, backward \in BOOLEAN, cursor \in Cursors :
          PageStart(limit, backward, cursor)
    \/ PageGet
    \/ \E ts \in Times, id \in PageIds : PageInsertDuring(ts, id)

SpecPageLive == Init /\ [][NextPageLive]_vars

\* Callbacks arrive while transactions are processed.
NextCallback ==
    \/ \E h \in Handlers, str \in AmountStrings, a \in Assets, m \in MemoTypes :
          CallbackReceive(h, str, a, m)
    \/ CallbackInsert
    \/ CallbackInsertFail
    \/ \E t \in TxIds : ProcessTransaction(t)

SpecCallback == Init /\ [][NextCallback]_vars

\* The settlement worker: the timer fires whether or not a sweep is running.
NextJob ==
    \/ JobTimer
    \/ JobTick
    \/ JobRunSettlements
    \/ JobRunSettlementsFail
    \/ JobReturn
    \/ RunNextAsset
    \/ RunSettleAsset
    \/ RunMatch
    \/ RunReturn
    \/ \E a \in Assets : SettleBegin(Competitor, a)
    \/ \E p \in Settlers, t \in TxIds : SettleLockRow(p, t)
    \/ \E p \in Settlers : SettleEmpty(p)
    \/ \E p \in Settlers : SettleInsertAndLink(p)
    \/ \E p \in Settlers : SettleCommit(p)
    \/ \E p \in Settlers : SettleFail(p)

SpecJob == InitStore /\ [][NextJob]_vars

\* The two pool managers after construction; the servers fail and recover.
InitPool ==
    /\ now = 0
    /\ transactions = <<>>
    /\ settlements = <<>>
    /\ dlq = {}
    /\ nextDlq = 1
    /\ lock = [t \in TxIds |-> NoProc]
    /\ settler = [p \in Settlers |-> IdleSettler]
    /\ requeuer = [p \in Requeuers |-> IdleRequeuer]
    /\ IdemInit
    /\ retry = IdleRetry
    /\ RouterInit
    /\ sweep = IdleSweep
    /\ AuxInit

\* db::pool_manager::PoolManager and its caller, the search handler.
NextRouter ==
    \/ \E srv \in Servers : Crash(srv)
    \/ \E srv \in Servers : Recover(srv)
    \/ \E intent \in Intents : Route(intent)
    \/ HealthCheck
    \/ SearchStart
    \/ SearchQuery

SpecRouter == InitPool /\ [][NextRouter]_vars

\* Queries routed by get_pool and run by execute_query, with check_health
\* probing the replicas.
NextPool ==
    \/ \E srv \in Servers : Crash(srv)
    \/ \E srv \in Servers : Recover(srv)
    \/ \E intent \in Intents : Route(intent)
    \/ \E query_type \in Intents : ExecStart(query_type)
    \/ ExecReplica
    \/ ExecFallback
    \/ ExecPrimary
    \/ CheckStart
    \/ CheckLock
    \/ CheckReplica
    \/ CheckDone

SpecPool == InitPool /\ [][NextPool]_vars

\* ------------------------------------------- middleware/idempotency.rs
HandlerResponse(status) == [status |-> status, body |-> "handler"]
TooManyRequests == [status |-> 429, body |-> "Request is currently being processed"]
BadRequest == [status |-> 400, body |-> "Invalid idempotency key format"]
\* StatusCode::from_u16(cached.status).unwrap_or(StatusCode::OK) and the fixed body
CachedReply(cached) ==
    [status |-> IF cached.status >= 100 /\ cached.status <= 999 THEN cached.status ELSE 200,
     body |-> "Request already processed"]

\* A request carrying the header x-idempotency-key reaches the middleware.
ReqStart(r, k) ==
    /\ req[r].pc \in {"idle", "done"}
    /\ req' = [req EXCEPT ![r] = [IdleRequest EXCEPT !.pc = "get", !.key = k]]
    /\ UNCHANGED <<ops, db, cache, holders, stored, released>>

\* No header: next.run(request) without any idempotency check.
ReqNoKey(r) ==
    /\ req[r].pc \in {"idle", "done"}
    /\ req' = [req EXCEPT ![r] = [IdleRequest EXCEPT !.pc = "nokey"]]
    /\ UNCHANGED <<ops, db, cache, holders, stored, released>>

\* A header value that is not a string: 400.
ReqBadKey(r) ==
    /\ req[r].pc \in {"idle", "done"}
    /\ req' = [req EXCEPT ![r] =
                  [IdleRequest EXCEPT !.pc = "done", !.response = BadRequest]]
    /\ UNCHANGED <<ops, db, cache, holders, stored, released>>

\* check_idempotency, first half: conn.get(&key) and the match on it
\* mutant: a PROCESSING marker is treated like a missing key
AfterGet_IgnoresMarker(r, existing) ==
    IF existing = Absent \/ existing.value = "PROCESSING"
    THEN [req[r] EXCEPT !.pc = "set", !.after_release = released[req[r].key]]
    ELSE IF Deserialize(existing.value).ok
    THEN [req[r] EXCEPT !.pc = "done", !.outcome = "Completed",
                        !.response = CachedReply(Deserialize(existing.value)),
                        !.after_release = released[req[r].key]]
    ELSE [req[r] EXCEPT !.pc = "failopen", !.outcome = "Err",
                        !.after_release = released[req[r].key]]

AfterGet(r, existing) ==
    IF existing = Absent
    THEN [req[r] EXCEPT !.pc = "set", !.after_release = released[req[r].key]]
    ELSE IF existing.value = "PROCESSING"
    THEN [req[r] EXCEPT !.pc = "done", !.outcome = "Processing",
                        !.response = TooManyRequests,
                        !.after_release = released[req[r].key]]
    ELSE IF Deserialize(existing.value).ok
    THEN [req[r] EXCEPT !.pc = "done", !.outcome = "Completed",
                        !.response = CachedReply(Deserialize(existing.value)),
                        !.after_release = released[req[r].key]]
    ELSE [req[r] EXCEPT !.pc = "failopen", !.outcome = "Err",
                        !.after_release = released[req[r].key]]

BeginGet(r) ==
    /\ req[r].pc = "get"
    /\ req' = [req EXCEPT ![r] = AfterGet(r, cache[req[r].key])]
    /\ UNCHANGED <<ops, db, cache, holders, stored, released>>

\* check_idempotency, second half: conn.set_ex(&key, "PROCESSING", 300)
BeginSet(r) ==
    /\ req[r].pc = "set"
    /\ cache' = [cache EXCEPT ![req[r].key] =
                    [value |-> "PROCESSING", ttl |-> PROCESSING_TTL]]
    /\ req' = [req EXCEPT ![r].pc = "handler", ![r].outcome = "New"]
    /\ holders' = [holders EXCEPT ![req[r].key] = @ + 1]
    /\ released' = [released EXCEPT ![req[r].key] = FALSE]
    /\ UNCHANGED <<ops, db, stored>>

\* mutant: a cache error rejects the request instead of running the handler
BeginErr_Reject(r) ==
    /\ req[r].pc \in {"get", "set"}
    /\ req' = [req EXCEPT ![r].pc = "done", ![r].outcome = "Err",
                          ![r].response = [status |-> 503, body |-> "unavailable"]]
    /\ UNCHANGED <<ops, db, cache, holders, stored, released>>

\* The connection, the GET or the SET fails: check_idempotency returns Err.
BeginErr(r) ==
    /\ req[r].pc \in {"get", "set"}
    /\ req' = [req EXCEPT ![r].pc = "failopen", ![r].outcome = "Err"]
    /\ UNCHANGED <<ops, db, cache, holders, stored, released>>

\* next.run(request): the downstream handler answers with some status.
AfterHandler(r, status) ==
    IF req[r].pc = "handler"
    THEN [req[r] EXCEPT !.pc = IF IsSuccess(status) THEN "store" ELSE "release",
                        !.runs = @ + 1, !.handled = status]
    ELSE [req[r] EXCEPT !.pc = "done", !.runs = @ + 1, !.handled = status,
                        !.response = HandlerResponse(status)]

RunHandler(r, status) ==
    /\ req[r].pc \in {"handler", "failopen", "nokey"}
    /\ req' = [req EXCEPT ![r] = AfterHandler(r, status)]
    /\ UNCHANGED <<ops, db, cache, holders, stored, released>>

\* store_response: conn.set_ex(&key, serialized, IDEMPOTENCY_TTL)
StoredValue(status) == [value |-> Serialize(status, SuccessBody), ttl |-> IDEMPOTENCY_TTL]

StoreResponse(r) ==
    /\ req[r].pc = "store"
    /\ cache' = [cache EXCEPT ![req[r].key] = StoredValue(req[r].handled)]
    /\ stored' = [stored EXCEPT ![req[r].key] = Serialize(req[r].handled, SuccessBody)]
    /\ holders' = [holders EXCEPT ![req[r].key] = 0]
    /\ released' = [released EXCEPT ![req[r].key] = FALSE]
    /\ req' = [req EXCEPT ![r].pc = "done",
                          ![r].response = HandlerResponse(req[r].handled)]
    /\ UNCHANGED <<ops, db>>

\* release_lock: conn.del(&key)
\* mutant: the DEL names another key (the prefix is missing) and removes nothing
AfterDel_WrongKey(k) == cache

AfterDel(k) == [cache EXCEPT ![k] = Absent]

ReleaseLock(r) ==
    /\ req[r].pc = "release"
    /\ cache' = AfterDel(req[r].key)
    /\ holders' = [holders EXCEPT ![req[r].key] = 0]
    /\ released' = [released EXCEPT ![req[r].key] = TRUE]
    /\ req' = [req EXCEPT ![r].pc = "done",
                          ![r].response = HandlerResponse(req[r].handled)]
    /\ UNCHANGED <<ops, db, stored>>

\* store_response or release_lock fails: the error is logged, the response returned.
AfterErr(r) ==
    /\ req[r].pc \in {"store", "release"}
    /\ req' = [req EXCEPT ![r].pc = "done",
                          ![r].response = HandlerResponse(req[r].handled)]
    /\ UNCHANGED <<ops, db, cache, holders, stored, released>>

\* The TTL of a key elapses and Redis drops it.
Expire(k) ==
    /\ cache[k] # Absent
    /\ cache' = [cache EXCEPT ![k] = Absent]
    /\ holders' = [holders EXCEPT ![k] = 0]
    /\ stored' = [stored EXCEPT ![k] =
                     IF cache[k].ttl = IDEMPOTENCY_TTL THEN "" ELSE @]
    /\ UNCHANGED <<ops, db, req, released>>

NextIdem ==
    \/ \E r \in Requests, k \in Keys : ReqStart(r, k)
    \/ \E r \in Requests : ReqNoKey(r)
    \/ \E r \in Requests : ReqBadKey(r)
    \/ \E r \in Requests : BeginGet(r)
    \/ \E r \in Requests : BeginSet(r)
    \/ \E r \in Requests : BeginErr(r)
    \/ \E r \in Requests, st \in HandlerStatuses : RunHandler(r, st)
    \/ \E r \in Requests : StoreResponse(r)
    \/ \E r \in Requests : ReleaseLock(r)
    \/ \E r \in Requests : AfterErr(r)
    \/ \E k \in Keys : Expire(k)

SpecIdem == Init /\ [][NextIdem]_vars

\* ---------------------------------------------------------------- C1
\* C1: under any interleaving of concurrent settle_asset runs (same or
\* different assets) with the processing and force-complete updates, no
\* transaction is counted in the total of two settlements.
C1_NoDoubleSettlement ==
    \A i, j \in 1..Len(settlements) :
        i # j => settlements[i].counted \cap settlements[j].counted = {}

\* Two runs raced for a row: one has committed a settlement that holds the
\* row, the other selected the same row and is about to lock it.
C1_Witness ==
    \E p \in Settlers, t \in TxIds :
        /\ settler[p].pc = "lock"
        /\ t \in settler[p].todo
        /\ transactions[t].settlement_id # NULL

Constituents(sid) ==
    {t \in 1..Len(transactions) : transactions[t].settlement_id = sid}

C3_SettlementTotals ==
    \A sid \in 1..Len(settlements) :
        /\ settlements[sid].tx_count = Cardinality(Constituents(sid))
        /\ settlements[sid].total_amount = SumAmounts(Constituents(sid))

C3_Witness ==
    \E sid \in 1..Len(settlements) :
        /\ settlements[sid].tx_count = 2
        /\ settlements[sid].total_amount = 3
        /\ Cardinality(Constituents(sid)) = 2

\* ---------------------------------------------------------------- C4
\* C4: once a transaction references a settlement, no step clears the
\* reference or changes it to another settlement.
C4_SettlementIdSetOnce ==
    [][\A t \in 1..Len(transactions) :
          transactions[t].settlement_id # NULL =>
              transactions'[t].settlement_id = transactions[t].settlement_id]_vars

\* A settled transaction went through the dead-letter set and was requeued:
\* its status was rewritten twice and the reference is still there.
C4_Witness ==
    \E t \in 1..Len(transactions) :
        /\ transactions[t].settlement_id # NULL
        /\ transactions[t].status = "pending"

\* ---------------------------------------------------------------- C5
\* C5: of the callers that run Begin on one key while no marker is present,
\* only one observes New (the others observe InFlight): at most one caller
\* holds New on a marker.
C5_OneNewPerMarker == \A k \in Keys : holders[k] <= 1

\* ---------------------------------------------------------------- C6
\* C6: after Complete has stored a result for a key, every Begin on that key
\* within the completed TTL returns Completed with the stored result, and the
\* middleware answers with the cached reply without running the handler.
C6_ReplayReturnsStored ==
    [][\A r \in Requests :
          ( /\ req[r].pc = "get"
            /\ stored[req[r].key] # ""
            /\ req'[r].pc \notin {"get", "failopen"} )
          => /\ req'[r].pc = "done"
             /\ req'[r].outcome = "Completed"
             /\ req'[r].response = CachedReply(Deserialize(stored[req[r].key]))
             /\ req'[r].runs = 0]_vars

\* ---------------------------------------------------------------- C7
\* C7: after Release(key), the next Begin(key) behaves as New: its read
\* finds no marker, and its write leaves a fresh in-flight marker and
\* returns New.
C7_NewAfterRelease ==
    [][\A r \in Requests :
          /\ ( /\ req[r].pc = "get"
               /\ released[req[r].key]
               /\ req'[r].pc \notin {"get", "failopen"} )
             => req'[r].pc = "set"
          /\ ( /\ req[r].pc = "set"
               /\ req[r].after_release
               /\ req'[r].pc = "handler" )
             => /\ req'[r].outcome = "New"
                /\ cache'[req[r].key] = [value |-> "PROCESSING", ttl |-> PROCESSING_TTL]]_vars

C7_Witness ==
    \E r \in Requests :
        /\ req[r].after_release
        /\ req[r].pc = "handler"
        /\ req[r].outcome = "New"
        /\ cache[req[r].key].value = "PROCESSING"

\* ---------------------------------------------------------------- C8
\* C8: fail open: when the cache cannot be reached or errors during Begin,
\* the request is passed to the downstream handler exactly once and the
\* handler's response is returned.
C8_FailOpen ==
    \A r \in Requests :
        /\ req[r].pc = "failopen" => req[r].runs = 0
        /\ (req[r].pc = "done" /\ req[r].outcome = "Err") =>
              /\ req[r].runs = 1
              /\ req[r].response = HandlerResponse(req[r].handled)

C8_Witness ==
    \E r \in Requests :
        /\ req[r].pc = "done"
        /\ req[r].outcome = "Err"
        /\ req[r].runs = 1
        /\ req[r].response = HandlerResponse(201)

\* ---------------------------------------------------------------- C9
\* C9: requeue_dlq is atomic: once it has returned (or died), no
\* transaction is back in pending while its dead-letter entry still exists,
\* and no transaction is in dlq without its entry.
Live(t) == \E e \in dlq : e.transaction_id = t

C9_RequeueAtomic ==
    (\A p \in Requeuers : requeuer[p].pc \in {"idle", "done"}) =>
        \A t \in 1..Len(transactions) :
            /\ ~(transactions[t].status = "pending" /\ Live(t))
            /\ ~(transactions[t].status = "dlq" /\ ~Live(t))

C11_UnknownIdNotFound ==
    \A p \in Requeuers :
        (requeuer[p].pc = "done" /\ requeuer[p].result = "RowNotFound") =>
            /\ RequeueDlqResponse(requeuer[p].result).status = NotFound("").status
            /\ RequeueDlqResponse(requeuer[p].result).code = NotFound("").code
            /\ RequeueDlqResponse(requeuer[p].result).status # RequeueDlqResponse("Err").status
            /\ RequeueDlqResponse(requeuer[p].result).code # RequeueDlqResponse("Err").code


\* ---------------------------------------------------------------- C12
\* C12: retry_transaction reports NotFound only when the id matches neither
\* the id nor the transaction_id of any dead-letter entry.
C12_NotFoundOnlyWhenUnmatched ==
    [][(retry.pc # "done" /\ retry'.pc = "done"
          /\ retry'.response.status = NotFound("").status)
       => ~\E e \in dlq : \/ e.id = AsDlqId(retry.id)
                           \/ e.transaction_id = AsTxId(retry.id)]_vars


C14_WritesOnPrimary ==
    /\ routed.intent = "Write" => routed.pool = Primary
    /\ exec.query_type = "Write" =>
          \A i \in 1..Len(exec.tried) : exec.tried[i] = Primary

\* A write failed on the primary while a replica flagged healthy was up, and
\* get_pool routed a write with a replica configured.
C14_Witness ==
    /\ exec.pc = "done"
    /\ exec.query_type = "Write"
    /\ exec.result = "Err"
    /\ exec.tried = <<Primary>>
    /\ \E i \in 1..Len(replicas) : replicas[i].healthy /\ up[replicas[i].pool]
    /\ routed.intent = "Write"
    /\ replica # NoReplica


\* ---------------------------------------------------------------- C15
\* C15: when the most recent health probe found the replica unhealthy, a
\* Read-intent route returns the primary, not the replica.
C15_ReadAvoidsUnhealthyReplica ==
    [][(routed' # routed /\ routed'.intent = "Read" /\ probe.ran /\ ~probe.replica)
          => routed'.pool = Primary]_vars


\* ---------------------------------------------------------------- C16
\* C16: with no replica configured a Read-intent route returns the primary,
\* the pool a Write-intent route returns; with a replica configured and
\* healthy, Read returns the replica and Write the primary.
C16_RouteByIntent ==
    [][routed' # routed =>
          /\ replica = NoReplica => routed'.pool = Primary
          /\ (replica # NoReplica /\ up[replica] /\ (probe.ran => probe.replica)) =>
                routed'.pool = IF routed'.intent = "Read" THEN replica ELSE Primary]_vars

\* A read was routed to the configured replica after a probe found it healthy.
C16_Witness ==
    /\ replica # NoReplica
    /\ probe.ran /\ probe.replica
    /\ routed.intent = "Read"
    /\ routed.pool = replica


\* ---------------------------------------------------------------- C17
\* C17: when the replica chosen for a read fails on the query, the read is
\* run again on the primary: the caller of a read sees an error only when
\* the query was run on the primary and failed there.
C17_ReadRetriedOnPrimary ==
    /\ (search.pc = "done" /\ search.status = 500) => search.pool = Primary
    /\ (exec.pc = "done" /\ exec.query_type = "Read" /\ exec.result = "Err") =>
          exec.tried[Len(exec.tried)] = Primary


\* ---------------------------------------------------------------- C18
\* C18: a replica whose query failed during a read gets no later read until
\* a health probe has succeeded on it.
C18_FailedReplicaAvoided ==
    [][(exec.pc = "replicas" /\ Len(exec'.tried) = Len(exec.tried) + 1)
          => exec'.tried[Len(exec'.tried)] \notin failed]_vars


\* ---------------------------------------------------------------- C19
\* C19 (amended): after check_health completes, every replica's flag equals
\* the outcome of the liveness query this probe ran on it, the reported number
\* of healthy replicas is the number of flags set healthy, and the reported
\* total is the number of replicas the manager connected to when it was built.
C19_HealthCheckReport ==
    check.pc = "done" =>
        /\ Len(check.outcomes) = Len(replicas)
        /\ \A i \in 1..Len(replicas) : replicas[i].healthy = check.outcomes[i]
        /\ check.healthy_replicas = Cardinality({i \in 1..Len(replicas) : replicas[i].healthy})
        /\ check.total_replicas = Len(replicas)

\* a probe completed on two replicas, one answering and one not
C19_Witness ==
    /\ check.pc = "done"
    /\ Len(replicas) = 2
    /\ check.outcomes = <<TRUE, FALSE>>
    /\ replicas[2].healthy = FALSE
    /\ check.healthy_replicas = 1

\* C19 as stated: ... and the reported total is the number of configured
\* replicas (the urls handed to PoolManager::new).
C19_TotalIsConfigured ==
    check.pc = "done" =>
        /\ \A i \in 1..Len(replicas) : replicas[i].healthy = check.outcomes[i]
        /\ check.healthy_replicas = Cardinality({i \in 1..Len(replicas) : replicas[i].healthy})
        /\ check.total_replicas = Len(replica_urls)


\* ---------------------------------------------------------------- C20
\* C20: in run_settlements a failed settle_asset does not abort the sweep:
\* whatever a settle_asset call returns, the loop goes on with the assets
\* still to visit and a committed settlement is pushed to the results; and
\* once the sweep has returned after visiting an asset, settle_asset was
\* called once for every discovered asset, the value returned is Ok with the
\* settlements those calls committed, and no per-asset error reached the caller.
C20_SweepSurvivesAssetFailure ==
    /\ [][(sweep.pc = "call" /\ sweep'.pc # "call") =>
             /\ sweep'.pc = "loop"
             /\ sweep'.assets = sweep.assets
             /\ sweep'.results =
                   IF settler[SweepSettler].result = "Some"
                   THEN Append(sweep.results, settler[SweepSettler].saved)
                   ELSE sweep.results]_vars
    /\ [](sweep.pc = "done" /\ sweep.called # <<>> =>
             /\ sweep.response.kind = "Ok"
             /\ sweep.response.results = sweep.results
             /\ Len(sweep.called) = Cardinality(sweep.discovered)
             /\ {sweep.called[i] : i \in 1..Len(sweep.called)} = sweep.discovered
             /\ \A i \in 1..Len(sweep.results) :
                   /\ sweep.results[i] \in (sweep.first + 1)..Len(settlements)
                   /\ settlements[sweep.results[i]].asset_code
                         \in sweep.discovered \ sweep.logged
                   /\ \A j \in 1..Len(sweep.results) :
                         sweep.results[i] = sweep.results[j] => i = j)

\* the sweep returned: settle_asset failed for the first of two discovered
\* assets, and the settlement committed for the second one is returned
C20_Witness ==
    /\ sweep.pc = "done"
    /\ Len(sweep.called) = 2
    /\ sweep.logged = {sweep.called[1]}
    /\ sweep.response.kind = "Ok"
    /\ Len(sweep.response.results) = 1
    /\ settlements[sweep.response.results[1]].asset_code = sweep.called[2]


\* ---------------------------------------------------------------- C21
\* C21: settle_asset is all-or-nothing: while an invocation runs, and when it
\* returns Err or Ok(None), it leaves the settlements and the transactions as
\* they were; when it returns Ok(Some), its settlement row is appended and
\* exactly the transactions it scanned are linked to that row.
C21_SettleAllOrNothing ==
    [][\A p \in Settlers :
          (settler[p].pc \in {"lock", "commit"} /\ settler'[p] # settler[p]) =>
             IF settler'[p].pc = "done" /\ settler'[p].result = "Some"
             THEN /\ settler[p].got # {}
                  /\ settlements' = Append(settlements, settler[p].row)
                  /\ settler[p].row.counted = settler[p].got
                  /\ Len(transactions') = Len(transactions)
                  /\ \A t \in 1..Len(transactions) :
                        IF t \in settler[p].got
                        THEN /\ transactions[t].settlement_id = NULL
                             /\ transactions'[t].settlement_id = Len(settlements')
                        ELSE transactions'[t] = transactions[t]
             ELSE /\ settlements' = settlements
                  /\ transactions' = transactions]_vars

\* one invocation failed after its scan had locked a row, another one
\* committed: the only settlement and the only links are the second one's
C21_Witness ==
    \E p, q \in Settlers :
        /\ settler[p].pc = "done" /\ settler[p].result = "Err"
        /\ settler[q].pc = "done" /\ settler[q].result = "Some"
        /\ Len(settlements) = 1
        /\ \E t \in 1..Len(transactions) : transactions[t].settlement_id = 1
        /\ \E t \in 1..Len(transactions) :
              transactions[t].status = "completed" /\ transactions[t].settlement_id = NULL


\* ---------------------------------------------------------------- C22
\* C22: settle_asset run again on the same asset right after a run that
\* returned Ok(Some), with no transaction completed (no completing UPDATE
\* run) since that run was called: the second run, unless a store failure
\* interrupts it, returns Ok(None), and none of its steps changes the
\* settlements or the transactions.
C22_RerunIsNoOp ==
    /\ [](rerun.pc = "second" /\ Completed \subseteq rerun.completed
           => /\ Candidates(rerun.asset, now) = {}
              /\ settler[RerunSettler].got = {})
    /\ [][(rerun.pc = "second" /\ Completed \subseteq rerun.completed
              /\ settler'[RerunSettler] # settler[RerunSettler])
           => /\ settlements' = settlements
              /\ transactions' = transactions
              /\ settler'[RerunSettler].pc = "done"
                    => settler'[RerunSettler].result \in {"None", "Err"}]_vars

\* the first run committed a settlement, nothing was completed since, and
\* the second run returned Ok(None)
C22_Witness ==
    /\ rerun.pc = "done"
    /\ rerun.first = "Some"
    /\ rerun.second = "None"
    /\ Completed \subseteq rerun.completed
    /\ \E k \in 1..Len(settlements) : settlements[k].asset_code = rerun.asset
    /\ \E t \in 1..Len(transactions) :
          /\ transactions[t].asset_code = rerun.asset
          /\ transactions[t].settlement_id # NULL


\* ---------------------------------------------------------------- C23
\* C23: every change of a transaction's status follows pending -> completed,
\* pending -> dlq, completed -> dlq or dlq -> pending; in particular no
\* transaction goes from dlq to completed.
C23_StatusGraph ==
    [][\A t \in 1..Len(transactions) :
          transactions'[t].status # transactions[t].status =>
             <<transactions[t].status, transactions'[t].status>> \in
                {<<"pending", "completed">>, <<"pending", "dlq">>,
                 <<"completed", "dlq">>, <<"dlq", "pending">>}]_vars


\* ---------------------------------------------------------------- C24
\* C24: every transaction that settle_asset links to a settlement is, at
\* the moment the link is committed, completed and without settlement: a
\* pending or dlq transaction is never linked, whatever requeue_dlq, the
\* dead-letter move and the processor do meanwhile.
C24_OnlyCompletedLinked ==
    [][\A t \in 1..Len(transactions) :
          transactions'[t].settlement_id # transactions[t].settlement_id =>
             /\ transactions[t].status = "completed"
             /\ transactions[t].settlement_id = NULL
             /\ transactions'[t].status = "completed"
             /\ \E p \in Settlers : settler[p].pc = "commit" /\ t \in settler[p].got]_vars

\* a run committed a settlement although one of the rows its scan selected
\* had left completed before the run could lock it: that row is not linked
C24_Witness ==
    \E p \in Settlers :
        /\ settler[p].pc = "done" /\ settler[p].result = "Some" /\ settler[p].skipped
        /\ \E t \in 1..Len(transactions) :
              /\ transactions[t].status = "dlq"
              /\ transactions[t].settlement_id = NULL
              /\ transactions[t].asset_code = settlements[settler[p].saved].asset_code


\* ---------------------------------------------------------------- C25
\* C25: completed and linked to a settlement is terminal: once a
\* transaction has a settlement_id, no operation changes its status.
C25_SettledIsTerminal ==
    [][\A t \in 1..Len(transactions) :
          transactions[t].settlement_id # NULL =>
             /\ transactions'[t].settlement_id = transactions[t].settlement_id
             /\ transactions'[t].status = "completed"]_vars


\* ---------------------------------------------------------------- C26
\* C26: a forward traversal from the first page, following next_cursor until
\* has_more is false, returns the id of every stored transaction exactly once.
C26_ForwardTraversalComplete ==
    (pager.pc = "done" /\ ~pager.backward /\ pager.start = NoCursor) =>
        /\ pager.status = 200
        /\ Len(pager.seen) = Cardinality(pager.rows)
        /\ {pager.seen[i] : i \in 1..Len(pager.seen)} = {r[2] : r \in pager.rows}

\* a traversal of three rows, two of them created at the same time, in
\* pages of one
C26_Witness ==
    /\ pager.pc = "done" /\ ~pager.backward /\ pager.start = NoCursor
    /\ pager.limit = <<1>>
    /\ Cardinality(pager.rows) = 3
    /\ \E a, b \in pager.rows : a # b /\ a[1] = b[1]
    /\ Len(pager.seen) = 3

\* ---------------------------------------------------------------- C27
\* C27: a backward traversal from a starting cursor, following next_cursor
\* until has_more is false, returns every transaction newer than the
\* starting cursor exactly once.
C27_BackwardTraversalComplete ==
    (pager.pc = "done" /\ pager.backward /\ pager.start # NoCursor
        /\ Decode(pager.start).ok) =>
        LET newer == {r \in pager.rows :
                        OrderLess(<<Decode(pager.start).ts, Decode(pager.start).id>>, r)}
        IN /\ Len(pager.seen) = Cardinality(newer)
           /\ {pager.seen[i] : i \in 1..Len(pager.seen)} = {r[2] : r \in newer}


\* ---------------------------------------------------------------- C28
\* C28: a callback whose amount is zero or negative is rejected with a
\* validation error before the store is touched, so that no stored
\* transaction has an amount <= 0.
C28_NonPositiveRejected ==
    /\ \A t \in 1..Len(transactions) : transactions[t].amount > 0
    /\ (cb.pc = "insert" => cb.amount > 0)
    /\ (cb.pc = "done" /\ ParseBigDecimal(cb.amount_str).ok
           /\ ParseBigDecimal(cb.amount_str).value <= 0 => cb.status = 400)

\* ---------------------------------------------------------------- C29
\* C29: a handled callback either inserts exactly one row, pending and
\* without settlement, and answers 201, or answers an error and leaves the
\* transactions table as it was.
C29_CallbackAllOrNothing ==
    [][cb' # cb =>
          IF cb'.pc = "done" /\ cb'.status = 201
          THEN /\ Len(transactions') = Len(transactions) + 1
               /\ SubSeq(transactions', 1, Len(transactions)) = transactions
               /\ transactions'[Len(transactions')].status = "pending"
               /\ transactions'[Len(transactions')].settlement_id = NULL
               /\ transactions'[Len(transactions')].asset_code = cb.asset_code
          ELSE /\ transactions' = transactions
               /\ cb'.pc = "done" => cb'.status \in {400, 500}]_vars

\* one callback was accepted and stored, the next one failed at the insert
C29_Witness ==
    /\ cb.pc = "done" /\ cb.status = 500
    /\ Len(transactions) = 1
    /\ transactions[1].status = "pending"


\* ---------------------------------------------------------------- C30
\* C30: the settlement worker never has two run_settlements sweeps in
\* flight, and it starts a sweep only when the previous one has returned.
C30_OneSweepAtATime ==
    /\ [](job.running <= 1)
    /\ [][job'.running > job.running =>
             job.running = 0 /\ sweep.pc = "idle"]_vars

\* a sweep is in its loop while the next tick is already due, in a store
\* where a settlement has been committed
C30_Witness ==
    /\ job.pc = "running"
    /\ job.running = 1
    /\ job.due = 1
    /\ sweep.pc = "loop"
    /\ Len(settlements) > 0

\* ---------------------------------------------------------------- C31
\* C31: a timer tick that fires while a sweep of the worker is running is
\* skipped, not queued: it does not become a due tick that the worker takes
\* as soon as the running sweep has returned.
C31_MissedTickSkipped ==
    [][job.pc = "running" => job'.due <= job.due]_vars

\* ---------------------------------------------------------------- C32
\* C32: the locking scan of settle_asset never waits for a row that another
\* settlement transaction holds: a settler whose scan still has rows to lock
\* always has one it can take or skip at once, whatever the other settler
\* has locked and not yet committed.
C32_ScanNeverWaits ==
    \A p \in Settlers :
        settler[p].pc = "lock" /\ settler[p].todo # {}
            => \E t \in settler[p].todo : lock[t] = NoProc

\* ---------------------------------------------------------------- C33
\* C33: a health probe never blocks request serving: while check_health is
\* probing the replicas, a read and a write that arrive can both start at
\* once, without waiting for the probe to finish.
C33_ProbeNeverBlocksRequests ==
    check.pc = "replicas" /\ exec.pc \in {"idle", "done"}
        => \A query_type \in Intents : ENABLED ExecStart(query_type)

\* ---------------------------------------------------------------- C34
\* C34: every transaction linked to a settlement has the asset_code of that
\* settlement: settle_asset(asset) never links a transaction of another
\* asset.
C34_SameAssetLinked ==
    \A sid \in 1..Len(settlements) :
        \A t \in Constituents(sid) :
            transactions[t].asset_code = settlements[sid].asset_code

\* a settlement was committed for one asset while a completed transaction
\* of the other asset, not newer than the linked one, stays unlinked
C34_Witness ==
    \E sid \in 1..Len(settlements) :
        \E t \in Constituents(sid) :
            \E u \in 1..Len(transactions) :
                /\ transactions[u].asset_code # settlements[sid].asset_code
                /\ transactions[u].status = "completed"
                /\ transactions[u].settlement_id = NULL
                /\ transactions[u].updated_at <= transactions[t].updated_at

\* ---------------------------------------------------------------- C35
\* C35: for every settlement that settle_asset creates, period_start is the
\* least created_at and period_end is the greatest updated_at of the
\* transactions it read under lock (their values before the link rewrites
\* updated_at).
C35_SettlementPeriod ==
    [][\A p \in Settlers :
          (settler[p].pc = "commit" /\ settler'[p].pc = "done"
              /\ Len(settlements') = Len(settlements) + 1)
          => LET created == settlements'[Len(settlements')]
                 unsettled == settler[p].got
             IN /\ \E t \in unsettled : created.period_start = transactions[t].created_at
                /\ \A t \in unsettled : created.period_start <= transactions[t].created_at
                /\ \E t \in unsettled : created.period_end = transactions[t].updated_at
                /\ \A t \in unsettled : created.period_end >= transactions[t].updated_at]_vars

\* a committed settlement of two transactions whose period is not a single
\* instant, one constituent created after the period's start
C35_Witness ==
    \E sid \in 1..Len(settlements) :
        /\ settlements[sid].tx_count = 2
        /\ settlements[sid].period_start < settlements[sid].period_end
        /\ \E t \in Constituents(sid) :
              transactions[t].created_at > settlements[sid].period_start

\* ---------------------------------------------------------------- C36
\* C36: a PROCESSING marker whose caller never stores nor releases it blocks
\* only until its TTL elapses. While the marker is there, a check of the key
\* that reaches the cache answers Processing (429) and the request is not
\* run; once the marker has expired, the check finds no key, writes a new
\* marker with the in-flight TTL and answers New.
C36_InFlightUntilExpiry ==
    [][\A r \in Requests :
          LET k == req[r].key IN
          /\ (req[r].pc = "get" /\ req'[r].pc # "get" /\ req'[r].outcome # "Err")
                => /\ cache[k].value = "PROCESSING"
                        => /\ req'[r].pc = "done"
                           /\ req'[r].outcome = "Processing"
                           /\ req'[r].response = TooManyRequests
                           /\ req'[r].runs = 0
                           /\ cache'[k] = cache[k]
                   /\ cache[k] = Absent => req'[r].pc = "set"
          /\ (req[r].pc = "set" /\ req'[r].pc # "set" /\ req'[r].outcome # "Err")
                => /\ req'[r].pc = "handler"
                   /\ req'[r].outcome = "New"
                   /\ cache'[k] = [value |-> "PROCESSING", ttl |-> PROCESSING_TTL]]_vars

\* q1 observed New and has not finished, the marker it wrote is gone (the
\* key's holders count q2 only), and q2 observed New on a fresh marker of
\* the same key
C36_Witness ==
    /\ req["q1"].pc = "handler"
    /\ req["q2"].pc = "handler"
    /\ req["q1"].key = req["q2"].key
    /\ req["q1"].runs = 0
    /\ req["q2"].outcome = "New"
    /\ holders[req["q2"].key] = 1
    /\ cache[req["q2"].key] = [value |-> "PROCESSING", ttl |-> PROCESSING_TTL]

\* ---------------------------------------------------------------- C37
\* C37: a completed result stored under a key is removed only by the expiry
\* of its TTL: no request's failure path (release_lock) deletes a completed
\* result, whatever the interleaving of the requests that carry the key.
C37_ReleaseKeepsCompleted ==
    [][\A k \in Keys :
          (cache[k].ttl = IDEMPOTENCY_TTL /\ cache'[k] = Absent) => req' = req]_vars

\* ---------------------------------------------------------------- C38
\* C38: in every reachable state each dead-letter entry references a
\* transaction whose status is dlq: no operation takes a transaction out of
\* dlq and leaves its entry behind.
C38_EntryOnlyForDlq ==
    \A e \in dlq :
        /\ Exists(e.transaction_id)
        /\ transactions[e.transaction_id].status = "dlq"

\* ---------------------------------------------------------------- C39
\* C39: in a forward traversal that workers interleave with inserts, no
\* transaction id is returned on two pages, and once has_more is false every
\* transaction that existed when the traversal started (below the starting
\* cursor, when one was given) has been returned.
C39_ForwardStableUnderInserts ==
    (~pager.backward /\ (pager.start = NoCursor \/ Decode(pager.start).ok)) =>
        /\ \A i, j \in 1..Len(pager.seen) : i # j => pager.seen[i] # pager.seen[j]
        /\ pager.pc = "done" =>
              \A r \in pager.before :
                  (pager.start = NoCursor
                      \/ OrderLess(r, <<Decode(pager.start).ts, Decode(pager.start).id>>))
                  => \E i \in 1..Len(pager.seen) : pager.seen[i] = r[2]

\* a traversal in pages of one over two rows created at the same time,
\* finished after a third row was inserted between two pages and returned
C39_Witness ==
    /\ pager.pc = "done" /\ ~pager.backward /\ pager.start = NoCursor
    /\ pager.limit = <<1>>
    /\ Cardinality(pager.before) = 2
    /\ \E a, b \in pager.before : a # b /\ a[1] = b[1]
    /\ Cardinality(pager.rows) = 3
    /\ Len(pager.seen) = 3

\* ---------------------------------------------------------------- C40
\* C40: concurrent settle_asset invocations on overlapping rows, run next to
\* force-complete and requeue updates, never deadlock, and under fair
\* scheduling every invocation that has begun eventually commits or rolls
\* back.
C40_SettleTerminates ==
    /\ [](\A p \in Settlers : ~InDeadlock(p))
    /\ \A p \in Settlers :
          (settler[p].pc \in {"lock", "commit"}) ~> (settler[p].pc = "done")

====
